---- MODULE Spec2Model ----
(***************************************************************************)
(* A model of promptpad's feed engine, src/core/feed/algorithm.py:         *)
(* FeedAlgorithm.record_interaction and get_feed over the per-user event   *)
(* logs (user_interactions) and the global trend map (trending_patterns),  *)
(* and the pure helpers _apply_diversity_filter and _inject_exploration.   *)
(*                                                                         *)
(* Numbers.  Momentum and pattern strength are Python floats, modelled as  *)
(* IEEE 754 doubles: every sum and product is the double nearest to the    *)
(* exact result.  Scores and rates that no threshold is applied to are in  *)
(* fixed point, in units of 1/Scale (one millionth), every product rounded *)
(* to the nearest unit.                                                    *)
(*                                                                         *)
(* Errors.  A Python exception ends the handler where it is raised and     *)
(* keeps the mutations made before it.  Every operation returns an outcome *)
(* record whose field raised is "none" or the exception's type.            *)
(***************************************************************************)
EXTENDS Integers, Sequences, FiniteSets, TLC

VARIABLES
    user_interactions,  \* FeedAlgorithm.user_interactions: user -> logs (keys made on access)
    trending_patterns,  \* FeedAlgorithm.trending_patterns: item -> momentum (keys made on access)
    viral_handled,      \* item -> number of _handle_viral_prompt invocations so far
    now,                \* the clock datetime.utcnow() reads; one tick per call
    call,               \* the last operation invoked, with its arguments
    ret,                \* its outcome: [raised, value]
    old,                \* user_interactions and trending_patterns at the entry of the last call
    pc,                 \* concurrent calls: the position of each thread
    loc,                \* concurrent calls: the locals of each thread
    key_order,          \* concurrent calls: the keys of trending_patterns in insertion
                        \* order, the order list(keys()) yields (no sequential result
                        \* depends on it)
    shell,              \* a PromptShell object: the fields of the prompt
    memory,             \* a RecursiveMemoryShell object: its layers, and the heap of the
                        \* per-user dicts the layers' user_adaptations refer to
    tracker,            \* a SymbolicResidueTracker object: pattern_combinations and
                        \* residue_patterns
    analysed            \* pattern signature -> number of analyze_prompt calls made with it

\* the objects outside FeedAlgorithm
residue == <<tracker, analysed>>

objects == <<shell, memory, residue>>

vars == <<user_interactions, trending_patterns, viral_handled, now, call, ret, old,
          pc, loc, key_order, objects>>

----------------------------------------------------------------------------
(* Bounds of the model *)

\* the calls of a run on the feed engine, and of a run on another object
MaxFeedCalls == 2
MaxCalls == 3

Users == {"u1", "u2"}
Items == {"p1", "p2"}
Metadata == {"md"}

\* the five interaction kinds of the interface, and one kind outside it
Kinds == {"view", "use", "remix", "skip", "share"}
UnknownKinds == {"like"}

----------------------------------------------------------------------------
(* Fixed point *)

Scale == 1000 * 1000

\* x * (p / q), rounded to the nearest unit; the whole multiples of q are
\* taken out first, so that no intermediate product leaves the integer range
MulRatio(x, p, q) == ((x \div q) * p) + (((2 * (x % q) * p) + q) \div (2 * q))

\* a / b as a fixed-point number
Ratio(a, b) == MulRatio(a * Scale, 1, b)

Max2(a, b) == IF a >= b THEN a ELSE b
Min2(a, b) == IF a <= b THEN a ELSE b

----------------------------------------------------------------------------
(* Natural numbers of any size: the sequence of their digits in base Base, *)
(* lowest digit first, no leading zero digit; 0 is << >>                   *)

BaseBits == 14
Base == 2 ^ BaseBits

RECURSIVE Trim(_)
Trim(a) ==
    IF a = << >> THEN a
    ELSE IF a[Len(a)] = 0 THEN Trim(SubSeq(a, 1, Len(a) - 1))
    ELSE a

Digit(a, i) == IF i <= Len(a) THEN a[i] ELSE 0

BigOf(n) == Trim(<< n % Base, (n \div Base) % Base, n \div (Base * Base) >>)

RECURSIVE AddFrom(_, _, _, _)
AddFrom(a, b, i, carry) ==
    IF i > Len(a) /\ i > Len(b)
    THEN IF carry = 0 THEN << >> ELSE << carry >>
    ELSE LET s == Digit(a, i) + Digit(b, i) + carry
         IN  << s % Base >> \o AddFrom(a, b, i + 1, s \div Base)

BigAdd(a, b) == AddFrom(a, b, 1, 0)

\* a - b, for a >= b
RECURSIVE SubFrom(_, _, _, _)
SubFrom(a, b, i, borrow) ==
    IF i > Len(a) THEN << >>
    ELSE LET s == Digit(a, i) - Digit(b, i) - borrow
         IN  IF s < 0 THEN << s + Base >> \o SubFrom(a, b, i + 1, 1)
                      ELSE << s >> \o SubFrom(a, b, i + 1, 0)

BigSub(a, b) == Trim(SubFrom(a, b, 1, 0))

\* -1, 0 or 1 as a is below, equal to or above b
RECURSIVE CmpFrom(_, _, _)
CmpFrom(a, b, i) ==
    IF i = 0 THEN 0
    ELSE IF a[i] < b[i] THEN 0 - 1
    ELSE IF a[i] > b[i] THEN 1
    ELSE CmpFrom(a, b, i - 1)

BigCmp(a, b) ==
    IF Len(a) < Len(b) THEN 0 - 1
    ELSE IF Len(a) > Len(b) THEN 1
    ELSE CmpFrom(a, b, Len(a))

\* a * d, for a digit d
RECURSIVE MulSmallFrom(_, _, _, _)
MulSmallFrom(a, d, i, carry) ==
    IF i > Len(a)
    THEN IF carry = 0 THEN << >> ELSE << carry >>
    ELSE LET s == (a[i] * d) + carry
         IN  << s % Base >> \o MulSmallFrom(a, d, i + 1, s \div Base)

BigMulSmall(a, d) == IF d = 0 THEN << >> ELSE MulSmallFrom(a, d, 1, 0)

\* quotient and remainder of a by d, for 0 < d <= Base
RECURSIVE DivSmallFrom(_, _, _, _)
DivSmallFrom(a, d, i, rem) ==
    IF i = 0 THEN [q |-> << >>, r |-> rem]
    ELSE LET s == (rem * Base) + a[i]
             rest == DivSmallFrom(a, d, i - 1, s % d)
         IN  [q |-> rest.q \o << s \div d >>, r |-> rest.r]

Quotient(qr) == [q |-> Trim(qr.q), r |-> qr.r]

BigDivSmall(a, d) == Quotient(DivSmallFrom(a, d, Len(a), 0))

RECURSIVE BigMul(_, _)
BigMul(a, b) ==
    IF a = << >> \/ b = << >> THEN << >>
    ELSE BigAdd(BigMulSmall(a, Head(b)), Trim(<< 0 >> \o BigMul(a, Tail(b))))

RECURSIVE Pow2(_)
Pow2(k) == IF k = 0 THEN 1 ELSE 2 * Pow2(k - 1)

\* a * 2^k
ShiftLeft(a, k) ==
    IF a = << >> THEN a
    ELSE [i \in 1 .. (k \div BaseBits) |-> 0] \o BigMulSmall(a, Pow2(k % BaseBits))

\* a \div 2^k
ShiftRight(a, k) ==
    IF k \div BaseBits >= Len(a) THEN << >>
    ELSE BigDivSmall(SubSeq(a, (k \div BaseBits) + 1, Len(a)), Pow2(k % BaseBits)).q

RECURSIVE DigitBits(_)
DigitBits(d) == IF d = 0 THEN 0 ELSE 1 + DigitBits(d \div 2)

\* the number of binary digits of a
BitLen(a) == IF a = << >> THEN 0 ELSE (BaseBits * (Len(a) - 1)) + DigitBits(a[Len(a)])

IsOdd(a) == a /= << >> /\ a[1] % 2 = 1

----------------------------------------------------------------------------
(* Python floats: the finite IEEE 754 doubles.  A float is its sign, and   *)
(* the natural number mant and the integer exp with |x| = mant * 2^exp;    *)
(* mant has MantBits binary digits, or fewer at the least exponent MinExp  *)
(* (subnormal numbers, and zero with mant = 0).  Every operation returns   *)
(* the double nearest to the exact result, ties to the even mantissa, as   *)
(* the hardware does; results beyond the largest double are not modelled.  *)

MantBits == 53
MinExp == 0 - 1074

Zero == [sign |-> 0, mant |-> << >>, exp |-> MinExp]

IsZero(x) == x.mant = << >>

\* a mantissa of MantBits + 1 digits, which rounding up has made a power of
\* two, is halved
Normal(sign, mant, exp) ==
    IF BitLen(mant) > MantBits
    THEN [sign |-> sign, mant |-> ShiftRight(mant, 1), exp |-> exp + 1]
    ELSE [sign |-> sign, mant |-> mant, exp |-> exp]

\* q is the mantissa cut off; half is 1, 0, -1 as the digits cut off are
\* above, equal to, below one half of the last place kept
RoundUp(sign, q, half, exp) ==
    Normal(sign, IF half > 0 \/ (half = 0 /\ IsOdd(q)) THEN BigAdd(q, << 1 >>) ELSE q, exp)

\* the last k binary digits of n are cut off and leave q
RoundCut(sign, n, q, k, exp) ==
    RoundUp(sign, q, BigCmp(BigSub(n, ShiftLeft(q, k)), ShiftLeft(<< 1 >>, k - 1)), exp)

\* exp is the exponent of the result before rounding
RoundAt(sign, n, e, exp) ==
    IF exp <= e
    THEN [sign |-> sign, mant |-> ShiftLeft(n, e - exp), exp |-> exp]
    ELSE RoundCut(sign, n, ShiftRight(n, exp - e), exp - e, exp)

\* the double nearest to (-1)^sign * n * 2^e
RoundToDouble(sign, n, e) ==
    IF n = << >> THEN [Zero EXCEPT !.sign = sign]
    ELSE RoundAt(sign, n, e, Max2(BitLen(n) + e - MantBits, MinExp))

\* the float literal num/den (3/2 for 1.5, 99/100 for 0.99), and float(num):
\* the quotient is cut after GuardBits binary places and a last digit tells
\* whether anything was cut off
GuardBits == 84

\* twice the quotient, plus one when the division left a remainder
Sticky(qr) == BigAdd(ShiftLeft(qr.q, 1), IF qr.r = 0 THEN << >> ELSE << 1 >>)

FloatOf(num, den) ==
    RoundToDouble(0, Sticky(BigDivSmall(ShiftLeft(BigOf(num), GuardBits), den)),
                  0 - (GuardBits + 1))

FNeg(x) == [x EXCEPT !.sign = 1 - @]

\* the place of the highest binary digit of |x|, and the mantissa of x at
\* the exponent e <= x.exp
TopBit(x) == BitLen(x.mant) + x.exp
Aligned(x, e) == ShiftLeft(x.mant, x.exp - e)

\* -1, 0, 1 as |x| is below, equal to, above |y|
CmpAbs(x, y) ==
    IF IsZero(x) \/ IsZero(y)
    THEN (IF IsZero(x) THEN 0 ELSE 1) - (IF IsZero(y) THEN 0 ELSE 1)
    ELSE IF TopBit(x) < TopBit(y) THEN 0 - 1
    ELSE IF TopBit(x) > TopBit(y) THEN 1
    ELSE BigCmp(Aligned(x, Min2(x.exp, y.exp)), Aligned(y, Min2(x.exp, y.exp)))

\* x < y
FLess(x, y) ==
    IF IsZero(x) /\ IsZero(y) THEN FALSE
    ELSE IF x.sign /= y.sign THEN x.sign = 1
    ELSE IF x.sign = 0 THEN CmpAbs(x, y) < 0
    ELSE CmpAbs(x, y) > 0

\* x == y
FEq(x, y) == ~FLess(x, y) /\ ~FLess(y, x)

\* x + y; a term more than FarBits binary places below the other one does
\* not reach the rounding of the sum
FarBits == 64

\* a and b are the mantissas of x and y at the exponent e
AddAligned(x, y, a, b, e) ==
    IF x.sign = y.sign THEN RoundToDouble(x.sign, BigAdd(a, b), e)
    ELSE IF BigCmp(a, b) = 0 THEN Zero
    ELSE RoundToDouble(IF BigCmp(a, b) > 0 THEN x.sign ELSE y.sign,
                       IF BigCmp(a, b) > 0 THEN BigSub(a, b) ELSE BigSub(b, a), e)

FAdd(x, y) ==
    IF IsZero(x) /\ IsZero(y) THEN [Zero EXCEPT !.sign = x.sign * y.sign]
    ELSE IF IsZero(x) THEN y
    ELSE IF IsZero(y) THEN x
    ELSE IF TopBit(x) - TopBit(y) > FarBits THEN x
    ELSE IF TopBit(y) - TopBit(x) > FarBits THEN y
    ELSE AddAligned(x, y, Aligned(x, Min2(x.exp, y.exp)), Aligned(y, Min2(x.exp, y.exp)),
                    Min2(x.exp, y.exp))

\* x * y
FMul(x, y) ==
    RoundToDouble((x.sign + y.sign) % 2, BigMul(x.mant, y.mant), x.exp + y.exp)

\* x / d, for an integer d with 0 < d <= Base
FDivInt(x, d) ==
    RoundToDouble(x.sign, Sticky(BigDivSmall(ShiftLeft(x.mant, GuardBits), d)),
                  x.exp - (GuardBits + 1))

\* exp(x) for x <= 0, as the double nearest to the exponential: with
\* u = |x| / 2^s below 1/2, the series of exp(-u) is summed in fixed point
\* with ExpBits binary places, and the sum is squared s times
ExpBits == 126

\* the sum of the terms of even index minus the sum of the terms of odd
\* index; st holds the term of index st.n and the sums of the terms before it
RECURSIVE ExpSeries(_, _)
ExpSeries(u, st) ==
    IF st.term = << >> THEN BigSub(st.even, st.odd)
    ELSE ExpSeries(u, [term |-> BigDivSmall(ShiftRight(BigMul(st.term, u), ExpBits),
                                            st.n + 1).q,
                       n |-> st.n + 1,
                       even |-> IF st.n % 2 = 0 THEN BigAdd(st.even, st.term) ELSE st.even,
                       odd |-> IF st.n % 2 = 1 THEN BigAdd(st.odd, st.term) ELSE st.odd])

\* n * 2^e with the last k binary digits of n cut off, and with n cut to
\* ExpBits binary digits
CutBy(n, e, k) == [n |-> ShiftRight(n, k), e |-> e + k]
Cut(n, e) == CutBy(n, e, Max2(BitLen(n) - ExpBits, 0))

\* (n * 2^e)^(2^s) for x = [n, e], n cut to ExpBits binary digits after every square
RECURSIVE SquareTimes(_, _)
SquareTimes(x, s) ==
    IF s = 0 \/ x.n = << >> THEN x
    ELSE SquareTimes(Cut(BigMul(x.n, x.n), 2 * x.e), s - 1)

\* the largest s for which a result is not 0: |x| >= 2^ExpMaxShift gives 0.0
ExpMaxShift == 11

\* |x| * 2^shift, cut to a whole number
ExpArg(x, shift) ==
    IF shift >= 0 THEN ShiftLeft(x.mant, shift) ELSE ShiftRight(x.mant, 0 - shift)

ExpStart == [term |-> ShiftLeft(<< 1 >>, ExpBits), n |-> 0, even |-> << >>, odd |-> << >>]

ExpRound(r) == RoundToDouble(0, r.n, r.e)

\* exp(x) with |x| / 2^s below 1/2
ExpScaled(x, s) ==
    IF s > ExpMaxShift THEN Zero
    ELSE ExpRound(SquareTimes([n |-> ExpSeries(ExpArg(x, (x.exp - s) + ExpBits), ExpStart),
                               e |-> 0 - ExpBits], s))

FExp(x) ==
    IF IsZero(x) THEN FloatOf(1, 1) ELSE ExpScaled(x, Max2(TopBit(x) + 1, 0))

----------------------------------------------------------------------------
(* hashlib.md5 (RFC 1321) over a sequence of bytes.  A 32-bit word is the  *)
(* pair << high half, low half >> of its 16-bit halves.                    *)

Half == 65536

\* the operations and, or, xor on one binary digit, and on numbers of n
\* hexadecimal digits through the tables of one hexadecimal digit
BitOf(op, a, b) ==
    CASE op = "and" -> a * b
      [] op = "or"  -> (a + b) - (a * b)
      [] op = "xor" -> (a + b) % 2

RECURSIVE BitsOf(_, _, _, _)
BitsOf(op, a, b, n) ==
    IF n = 0 THEN 0
    ELSE BitOf(op, a % 2, b % 2) + (2 * BitsOf(op, a \div 2, b \div 2, n - 1))

HexTable == [op \in {"and", "or", "xor"} |-> [a \in 0 .. 15 |-> [b \in 0 .. 15 |->
                BitsOf(op, a, b, 4)]]]

RECURSIVE HexOp(_, _, _, _)
HexOp(op, a, b, n) ==
    IF n = 0 THEN 0
    ELSE HexTable[op][a % 16][b % 16] + (16 * HexOp(op, a \div 16, b \div 16, n - 1))

WordOp(op, x, y) == << HexOp(op, x[1], y[1], 4), HexOp(op, x[2], y[2], 4) >>

WordNot(x) == << (Half - 1) - x[1], (Half - 1) - x[2] >>

\* x + y modulo 2^32
WordAdd(x, y) ==
    << (x[1] + y[1] + ((x[2] + y[2]) \div Half)) % Half, (x[2] + y[2]) % Half >>

\* x rotated to the left by s binary places, 0 < s < 32
Rotated(y, k) ==
    << ((y[1] * Pow2(k)) % Half) + (y[2] \div Pow2(16 - k)),
       ((y[2] * Pow2(k)) % Half) + (y[1] \div Pow2(16 - k)) >>

RotateLeft(x, s) == Rotated(IF s >= 16 THEN << x[2], x[1] >> ELSE x, s % 16)

\* floor(2^32 * abs(sin(i))) for i = 1 .. 64
Md5Sines ==
    << <<55146, 42104>>, <<59591, 46934>>, <<9248, 28891>>, <<49597, 52974>>,
       <<62844, 4015>>, <<18311, 50730>>, <<43056, 17939>>, <<64838, 38145>>,
       <<27008, 39128>>, <<35652, 63407>>, <<65535, 23473>>, <<35164, 55230>>,
       <<27536, 4386>>, <<64920, 29075>>, <<42617, 17294>>, <<18868, 2081>>,
       <<63006, 9570>>, <<49216, 45888>>, <<9822, 23121>>, <<59830, 51114>>,
       <<54831, 4189>>, <<580, 5203>>, <<55457, 59009>>, <<59347, 64456>>,
       <<8673, 52710>>, <<49975, 2006>>, <<62677, 3463>>, <<17754, 5357>>,
       <<43491, 59653>>, <<64751, 41976>>, <<26479, 729>>, <<36138, 19594>>,
       <<65530, 14658>>, <<34673, 63105>>, <<28061, 24866>>, <<64997, 14348>>,
       <<42174, 59972>>, <<19422, 53161>>, <<63163, 19296>>, <<48831, 48240>>,
       <<10395, 32454>>, <<60065, 10234>>, <<54511, 12421>>, <<1160, 7429>>,
       <<55764, 53305>>, <<59099, 39397>>, <<8098, 31992>>, <<50348, 22117>>,
       <<62505, 8772>>, <<17194, 65431>>, <<43924, 9127>>, <<64659, 41017>>,
       <<25947, 22979>>, <<36620, 52370>>, <<65519, 62589>>, <<34180, 24017>>,
       <<28584, 32335>>, <<65068, 59104>>, <<41729, 17172>>, <<19976, 4513>>,
       <<63315, 32386>>, <<48442, 62005>>, <<10967, 53947>>, <<60294, 54161>> >>

Md5Shifts ==
    << 7, 12, 17, 22, 7, 12, 17, 22, 7, 12, 17, 22, 7, 12, 17, 22,
       5, 9, 14, 20, 5, 9, 14, 20, 5, 9, 14, 20, 5, 9, 14, 20,
       4, 11, 16, 23, 4, 11, 16, 23, 4, 11, 16, 23, 4, 11, 16, 23,
       6, 10, 15, 21, 6, 10, 15, 21, 6, 10, 15, 21, 6, 10, 15, 21 >>

Md5Start == << <<26437, 8961>>, <<61389, 43913>>, <<39098, 56574>>, <<4146, 21622>> >>

\* the 32-bit word of four bytes, lowest byte first
WordOfBytes(bytes, i) ==
    << bytes[i + 2] + (256 * bytes[i + 3]), bytes[i] + (256 * bytes[i + 1]) >>

\* the message with its padding: a byte 128, zero bytes up to 56 modulo 64,
\* and the number of bits of the message in 8 bytes, lowest first
Md5Padded(bytes) ==
    LET zeros == (119 - (Len(bytes) % 64)) % 64
        bits == 8 * Len(bytes)
    IN  bytes \o << 128 >> \o [i \in 1 .. zeros |-> 0]
              \o << bits % 256, (bits \div 256) % 256, (bits \div Half) % 256,
                    bits \div (256 * Half), 0, 0, 0, 0 >>

\* the function of the round of step i, and the index of the word of the
\* block that the step adds
Md5F(i, b, c, d) ==
    IF i < 16 THEN WordOp("or", WordOp("and", b, c), WordOp("and", WordNot(b), d))
    ELSE IF i < 32 THEN WordOp("or", WordOp("and", d, b), WordOp("and", WordNot(d), c))
    ELSE IF i < 48 THEN WordOp("xor", b, WordOp("xor", c, d))
    ELSE WordOp("xor", c, WordOp("or", b, WordNot(d)))

Md5G(i) ==
    IF i < 16 THEN i
    ELSE IF i < 32 THEN ((5 * i) + 1) % 16
    ELSE IF i < 48 THEN ((3 * i) + 5) % 16
    ELSE (7 * i) % 16

\* one of the 64 steps on a block; st holds the words a, b, c, d and the
\* index i of the step, from 0
Md5Step(block, st) ==
    [a |-> st.d, d |-> st.c, c |-> st.b,
     b |-> WordAdd(st.b,
                   RotateLeft(WordAdd(WordAdd(Md5F(st.i, st.b, st.c, st.d), st.a),
                                      WordAdd(Md5Sines[st.i + 1],
                                              WordOfBytes(block, (4 * Md5G(st.i)) + 1))),
                              Md5Shifts[st.i + 1])),
     i |-> st.i + 1]

RECURSIVE Md5Steps(_, _)
Md5Steps(block, st) == IF st.i = 64 THEN st ELSE Md5Steps(block, Md5Step(block, st))

Md5Sum(h, st) ==
    << WordAdd(h[1], st.a), WordAdd(h[2], st.b), WordAdd(h[3], st.c), WordAdd(h[4], st.d) >>

Md5First(h) == [a |-> h[1], b |-> h[2], c |-> h[3], d |-> h[4], i |-> 0]

\* the state after the blocks of the padded message from the n-th on
RECURSIVE Md5Blocks(_, _, _)
Md5Blocks(padded, h, n) ==
    IF h[1] = h[1] /\ (64 * n) >= Len(padded) THEN h
    ELSE Md5Blocks(padded,
                   Md5Sum(h, Md5Steps(SubSeq(padded, (64 * n) + 1, 64 * (n + 1)), Md5First(h))),
                   n + 1)

HexDigits ==
    << "0", "1", "2", "3", "4", "5", "6", "7", "8", "9", "a", "b", "c", "d", "e", "f" >>

HexOfByte(b) == HexDigits[(b \div 16) + 1] \o HexDigits[(b % 16) + 1]

\* the hexadecimal digits of the four bytes of a word, lowest byte first
HexOfWord(a) ==
    HexOfByte(a[2] % 256) \o HexOfByte(a[2] \div 256)
        \o HexOfByte(a[1] % 256) \o HexOfByte(a[1] \div 256)

\* hashlib.md5(bytes).hexdigest()[:8]: the first word of the digest
Md5Hex8(bytes) == HexOfWord(Md5Blocks(Md5Padded(bytes), Md5Start, 0)[1])

----------------------------------------------------------------------------
(* str, str.encode *)

UnicodeEncodeError == "UnicodeEncodeError"

\* the UTF-8 bytes of one code point; a surrogate has none
Utf8Of(c) ==
    IF c < 128 THEN << c >>
    ELSE IF c < 2048 THEN << 192 + (c \div 64), 128 + (c % 64) >>
    ELSE IF c < 65536
    THEN << 224 + (c \div 4096), 128 + ((c \div 64) % 64), 128 + (c % 64) >>
    ELSE << 240 + (c \div 262144), 128 + ((c \div 4096) % 64),
            128 + ((c \div 64) % 64), 128 + (c % 64) >>

IsSurrogate(c) == c >= 55296 /\ c <= 57343

\* str.encode() of a string given by its code points
RECURSIVE Utf8(_)
Utf8(s) == IF s = << >> THEN << >> ELSE Utf8Of(Head(s)) \o Utf8(Tail(s))

\* str(n) for an integer n >= 0, as code points
RECURSIVE StrOfInt(_)
StrOfInt(n) == IF n < 10 THEN << 48 + n >> ELSE StrOfInt(n \div 10) \o << 48 + (n % 10) >>

\* str(b) for a bool: 'True', 'False'
StrOfBool(b) == IF b THEN << 84, 114, 117, 101 >> ELSE << 70, 97, 108, 115, 101 >>

----------------------------------------------------------------------------
(* Python values *)

None == << >>
Some(v) == << v >>

NoRaise == "none"
AttributeError == "AttributeError"
KeyError == "KeyError"

Outcome(raised, value) == [raised |-> raised, value |-> value]

\* dict[k] = v
Put(d, k, v) == [x \in (DOMAIN d) \cup {k} |-> IF x = k THEN v ELSE d[x]]

\* dict.get(k, default)
Get(d, k, default) == IF k \in DOMAIN d THEN d[k] ELSE default

\* del dict[k]
Del(d, k) == [x \in (DOMAIN d) \ {k} |-> d[x]]

EmptyDict == [x \in {} |-> 0]

\* the methods class FeedAlgorithm defines; self.<anything else> raises AttributeError
FeedAlgorithmMethods ==
    { "__init__", "get_feed", "record_interaction", "_build_user_profile",
      "_calculate_prompt_score", "_calculate_viral_potential",
      "_apply_diversity_filter", "_inject_exploration",
      "_update_trending_patterns", "_check_viral_threshold",
      "_handle_viral_prompt", "_get_prompt_category",
      "_get_exploration_candidates", "_get_prompt_data" }

HasMethod(name) == name \in FeedAlgorithmMethods

----------------------------------------------------------------------------
(* __init__ *)

\* the default factory of user_interactions
NewUserData ==
    [views |-> << >>, uses |-> << >>, remixes |-> << >>, skips |-> << >>,
     categories |-> EmptyDict]

\* viral_thresholds['remix_rate'] = 0.1, as the fraction RemixRateNum / RemixRateDen
RemixRateNum == 1
RemixRateDen == 10

\* self.user_interactions[user_id]: a defaultdict read inserts the default
TouchUser(ui, user_id) ==
    IF user_id \in DOMAIN ui THEN ui ELSE Put(ui, user_id, NewUserData)

\* self.trending_patterns[pid] read through defaultdict(float)
Momentum(tp, pid) == IF pid \in DOMAIN tp THEN tp[pid] ELSE Zero

----------------------------------------------------------------------------
(* _update_trending_patterns *)

\* 0.1, 0.5, 2.0, 1.5, -0.3
weight_map ==
    [view |-> FloatOf(1, 10), use |-> FloatOf(1, 2), remix |-> FloatOf(2, 1),
     share |-> FloatOf(3, 2), skip |-> FNeg(FloatOf(3, 10))]

\* weight_map.get(interaction_type, 0); the int 0 is added as 0.0
EventWeight(interaction_type) == Get(weight_map, interaction_type, Zero)

\* a decay factor above 1
GrowthFactor == FloatOf(101, 100)
DecayGrows(m) == FMul(m, GrowthFactor)

\* self.trending_patterns[pid] *= 0.99
DecayFactor == FloatOf(99, 100)
Decay(m) == FMul(m, DecayFactor)

\* an entry is deleted when its momentum is < 0.01
Epsilon == FloatOf(1, 100)

\* a loop that tests the threshold before it decays the entry
decay_patterns_testing_first(tp) ==
    [pid \in {key \in DOMAIN tp : ~FLess(tp[key], Epsilon)} |-> Decay(tp[pid])]

\* the loop over list(self.trending_patterns.keys()): every entry is decayed,
\* and deleted when it is then below the threshold
decay_patterns(tp) ==
    [pid \in {key \in DOMAIN tp : ~FLess(Decay(tp[key]), Epsilon)} |-> Decay(tp[pid])]

update_trending_patterns(tp, prompt_id, interaction_type) ==
    decay_patterns(Put(tp, prompt_id,
                       FAdd(Momentum(tp, prompt_id), EventWeight(interaction_type))))

----------------------------------------------------------------------------
(* _check_viral_threshold, _handle_viral_prompt, _get_prompt_data *)

\* what the item store holds for each item: the examples of the specification,
\* remix rate 15/100 for p1 and 5/100 for p2
ItemStore ==
    [pid \in Items |->
        IF pid = "p1" THEN [usage_count |-> 100, remix_count |-> 15]
                      ELSE [usage_count |-> 100, remix_count |-> 5]]

\* a lookup that answers with the record of the item store
get_prompt_data_from_store(prompt_id) == Some(ItemStore[prompt_id])

\* "Simplified for demonstration": the lookup answers None for every id
get_prompt_data(prompt_id) == None

\* returns the trend map and the invocation counts
handle_viral_prompt(tp, vh, prompt_id) ==
    [tp |-> Put(tp, prompt_id, FMul(Momentum(tp, prompt_id), FloatOf(2, 1))),
     vh |-> [vh EXCEPT ![prompt_id] = @ + 1]]

check_viral_threshold(tp, vh, prompt_id) ==
    LET prompt == get_prompt_data(prompt_id) IN
    IF prompt = None
    THEN [tp |-> tp, vh |-> vh]
    ELSE LET usage_count == prompt[1].usage_count
             remix_count == prompt[1].remix_count
         IN  IF usage_count > 0
                /\ remix_count * RemixRateDen > usage_count * RemixRateNum
             THEN handle_viral_prompt(tp, vh, prompt_id)
             ELSE [tp |-> tp, vh |-> vh]

----------------------------------------------------------------------------
(* record_interaction *)

Interaction(prompt_id, timestamp, interaction_type, metadata) ==
    [prompt_id |-> prompt_id, timestamp |-> timestamp,
     type |-> interaction_type, metadata |-> metadata]

\* the log an interaction type is appended to; share and unknown types have none
LogOf(interaction_type) ==
    CASE interaction_type = "view"  -> Some("views")
      [] interaction_type = "use"   -> Some("uses")
      [] interaction_type = "remix" -> Some("remixes")
      [] interaction_type = "skip"  -> Some("skips")
      [] OTHER                      -> None

AppendLog(ui, user_id, interaction) ==
    LET log == LogOf(interaction.type) IN
    IF log = None THEN ui
    ELSE [ui EXCEPT ![user_id] =
            CASE log[1] = "views"   -> [@ EXCEPT !.views = Append(@, interaction)]
              [] log[1] = "uses"    -> [@ EXCEPT !.uses = Append(@, interaction)]
              [] log[1] = "remixes" -> [@ EXCEPT !.remixes = Append(@, interaction)]
              [] log[1] = "skips"   -> [@ EXCEPT !.skips = Append(@, interaction)]]

\* use, remix and skip go on to call self._update_category_affinities
CallsUpdateAffinities(interaction_type) == interaction_type \in {"use", "remix", "skip"}

\* the handler has returned: v holds the trend map and the invocation counts
\* that the viral check left
Recorded(ui, v) == [ui |-> ui, tp |-> v.tp, vh |-> v.vh, raised |-> NoRaise]

\* the whole handler: the state it leaves and whether it raised
record_interaction(ui, tp, vh, timestamp, user_id, prompt_id, interaction_type, metadata) ==
    LET interaction == Interaction(prompt_id, timestamp, interaction_type, metadata)
        ui1 == TouchUser(ui, user_id)
        ui2 == AppendLog(ui1, user_id, interaction)
    IN  IF CallsUpdateAffinities(interaction_type)
           /\ ~HasMethod("_update_category_affinities")
        THEN [ui |-> ui2, tp |-> tp, vh |-> vh, raised |-> AttributeError]
        ELSE Recorded(ui2, check_viral_threshold(
                               update_trending_patterns(tp, prompt_id, interaction_type),
                               vh, prompt_id))

----------------------------------------------------------------------------
(* get_feed *)

\* _build_user_profile reads user_interactions[user_id], then evaluates
\* self._analyze_interaction_patterns, which the class does not define
build_user_profile(ui, user_id) ==
    LET ui1 == TouchUser(ui, user_id) IN
    IF ~HasMethod("_analyze_interaction_patterns")
    THEN [ui |-> ui1, raised |-> AttributeError, value |-> None]
    ELSE [ui |-> ui1, raised |-> NoRaise,
          value |-> Some([user_id |-> user_id,
                          category_preferences |-> ui1[user_id].categories])]

\* the whole handler; past the profile it calls self._gather_candidates,
\* which the class does not define either.  collaborator_calls counts the
\* requests made to the item store and the exploration source: the handler
\* raises before it makes any, and it has no except clause and no retry
get_feed(ui, user_id, count) ==
    LET profile == build_user_profile(ui, user_id) IN
    IF profile.raised # NoRaise
    THEN [ui |-> profile.ui, raised |-> profile.raised, value |-> << >>,
          collaborator_calls |-> 0]
    ELSE [ui |-> profile.ui, raised |-> AttributeError, value |-> << >>,
          collaborator_calls |-> 0]

----------------------------------------------------------------------------
(* PromptShell.__init__ (src/core/engine/prompt_shell.py) *)

\* the replacement fields of the template, as in "You are a {role}"
TemplateFields == {"role"}

\* a new prompt.  Not modelled: id, creator_id, parent_id, version, mutations,
\* share_count, expiry_time, total_earned, royalty_rate (execute and fork do
\* not write them) and effectiveness_score, trending_score (float functions
\* of elapsed wall-clock time, which no property here reads)
NewShell ==
    [template |-> TemplateFields,
     children |-> << >>,
     usage_count |-> 0,
     unique_users |-> {},
     last_used_at |-> None,
     execution_history |-> << >>,
     remix_count |-> 0,
     viral_coefficient |-> 0]

----------------------------------------------------------------------------
(* MemoryLayer, RecursiveMemoryShell (src/core/memory/recursive_shell.py)  *)
(* A layer's user_adaptations maps a user to a dict object; the model      *)
(* keeps those objects in a heap and the layers hold references (indices), *)
(* so that two layers can hold the same object.                            *)

\* the methods class RecursiveMemoryShell defines
RecursiveMemoryShellMethods ==
    { "__init__", "remember", "_extract_patterns", "_update_behavioral_memory",
      "_should_deepen_memory", "_create_new_layer", "_evolve_template",
      "_generate_memory_response", "_calculate_memory_density",
      "_calculate_confidence_score", "_identify_successful_patterns",
      "get_memory_state" }

\* defaultdict(float)['success_rate'] before its first write
NewAdaptation == [success_rate |-> 0]

\* MemoryLayer(layer_id, depth, created_at) with the defaults of its fields
NewLayer(depth) ==
    [depth |-> depth, interaction_count |-> 0, learned_patterns |-> EmptyDict,
     user_adaptations |-> EmptyDict, effectiveness_delta |-> 0]

\* the for loop over patterns.items()
learn_patterns(learned_patterns, patterns) ==
    [pattern \in (DOMAIN learned_patterns) \cup (DOMAIN patterns) |->
        IF pattern \in DOMAIN patterns
        THEN MulRatio(IF pattern \in DOMAIN learned_patterns
                      THEN learned_patterns[pattern] ELSE 0, 8, 10)
             + MulRatio(patterns[pattern], 2, 10)
        ELSE learned_patterns[pattern]]

\* MemoryLayer.integrate_experience on the layer at position i: returns the
\* layer and the heap.  user_id is None or Some(user)
integrate_experience(layer, heap, interaction_data) ==
    LET user_id == interaction_data.user_id
        known == user_id # None /\ user_id[1] \in DOMAIN layer.user_adaptations
        heap1 == IF user_id # None /\ ~known THEN Append(heap, NewAdaptation) ELSE heap
        adaptations1 ==
            IF user_id # None /\ ~known
            THEN Put(layer.user_adaptations, user_id[1], Len(heap1))
            ELSE layer.user_adaptations
        heap2 ==
            IF user_id = None THEN heap1
            ELSE LET ref == adaptations1[user_id[1]]
                 IN  [heap1 EXCEPT ![ref].success_rate =
                         MulRatio(@, 9, 10) + MulRatio(interaction_data.success_metric, 1, 10)]
    IN  [layer |-> [layer EXCEPT
                       !.interaction_count = @ + 1,
                       !.user_adaptations = adaptations1,
                       !.learned_patterns = learn_patterns(@, interaction_data.patterns)],
         heap |-> heap2]

\* sum(...) of a list of numbers
RECURSIVE Sum(_)
Sum(seq) == IF seq = << >> THEN 0 ELSE Head(seq) + Sum(Tail(seq))

\* behavioral_memory['user_preferences'] is written by _update_behavioral_memory
\* only, which no call reaches: total_users is 0
calculate_memory_density(layers) ==
    IF layers = << >> THEN 0
    ELSE LET total_patterns ==
                 Sum([i \in 1 .. Len(layers) |-> Cardinality(DOMAIN layers[i].learned_patterns)])
             total_interactions ==
                 Sum([i \in 1 .. Len(layers) |-> layers[i].interaction_count])
             density == Ratio(total_patterns, Max2(total_interactions, 1))
             user_density == Ratio(0, Max2(total_interactions, 1))
         IN  MulRatio(density, 7, 10) + MulRatio(user_density, 3, 10)

\* dict.copy() copies the keys and the values: a float value is copied, a
\* dict value is the same object in both copies
create_new_layer(m) ==
    LET new_layer ==
            IF m.memory_layers = << >> THEN NewLayer(m.current_depth)
            ELSE LET previous_layer == m.memory_layers[Len(m.memory_layers)]
                 IN  [NewLayer(m.current_depth) EXCEPT
                         !.learned_patterns = previous_layer.learned_patterns,
                         !.user_adaptations = previous_layer.user_adaptations]
        layers == Append(m.memory_layers, new_layer)
    IN  [m EXCEPT !.memory_layers = layers,
                  !.current_depth = @ + 1,
                  !.memory_density = calculate_memory_density(layers)]

\* remember: total_uses is counted, then the argument of integrate_experience
\* is built with self._extract_patterns, which calls self._categorize_length,
\* a method the class does not define
remember(m, interaction) ==
    LET m1 == [m EXCEPT !.total_uses = @ + 1] IN
    IF "_categorize_length" \notin RecursiveMemoryShellMethods
    THEN [memory |-> m1, raised |-> AttributeError]
    ELSE LET r == integrate_experience(m1.memory_layers[Len(m1.memory_layers)], m1.heap,
                                       [user_id |-> interaction.user_id,
                                        success_metric |-> interaction.success,
                                        patterns |-> EmptyDict])
         IN  [memory |-> [m1 EXCEPT !.memory_layers[Len(m1.memory_layers)] = r.layer,
                                    !.heap = r.heap],
              raised |-> AttributeError]   \* _generate_context_key is missing too

\* __init__, up to its call of _create_new_layer.  Not modelled: the
\* templates, behavioral_memory, evolution_history and mutation_rate, which
\* only the part of remember past the missing method writes
EmptyMemoryShell ==
    [memory_layers |-> << >>, heap |-> << >>, current_depth |-> 0,
     total_uses |-> 0, memory_density |-> 0]

NewMemoryShell == create_new_layer(EmptyMemoryShell)

----------------------------------------------------------------------------
(* SymbolicResidueTracker: a string is the sequence of its code points *)

ZeroDivisionError == "ZeroDivisionError"

\* the methods class SymbolicResidueTracker defines
SymbolicResidueTrackerMethods ==
    { "__init__", "analyze_prompt", "_detect_semantic_hooks", "_detect_structural_patterns",
      "_analyze_temporal_resonance", "_calculate_emergence_potential",
      "_discover_novel_patterns", "_calculate_residue_strength", "_update_pattern_library",
      "_measure_template_flexibility", "_calculate_semantic_openness",
      "predict_viral_potential" }

emergence_threshold == 5

\* the code points str.split() splits on
Whitespace ==
    (9 .. 13) \cup (28 .. 32) \cup {133, 160, 5760} \cup (8192 .. 8202)
        \cup {8232, 8233, 8239, 8287, 12288}

\* '{' and '|'
LeftBrace == 123
Bar == 124

\* template[:n]
Prefix(template, n) == SubSeq(template, 1, Min2(n, Len(template)))

\* template.count(c)
CountOf(template, c) == Cardinality({i \in 1 .. Len(template) : template[i] = c})

\* len(template.split()): the maximal runs of characters that are not whitespace
WordCount(template) ==
    Cardinality({i \in 1 .. Len(template) :
                    /\ template[i] \notin Whitespace
                    /\ (i = 1 \/ template[i - 1] \in Whitespace)})

\* metrics.get('effectiveness_score', 0) > 0.8
HighPerformance(metrics) == FLess(FloatOf(8, 10), Get(metrics, "effectiveness_score", Zero))

\* '|'.join(pattern_elements)
JoinedElements(template, metrics) ==
    Prefix(template, 50) \o << Bar >> \o StrOfInt(CountOf(template, LeftBrace))
        \o << Bar >> \o StrOfInt(WordCount(template))
        \o << Bar >> \o StrOfBool(HighPerformance(metrics))

\* str.encode() raises when the string holds a surrogate
Encodable(s) == \A i \in 1 .. Len(s) : ~IsSurrogate(s[i])

\* the prompts the specification analyses: '', 'hi {x}' without metrics and
\* with effectiveness_score 0.9, two templates that differ after their 50th
\* character, and 't90938', 't95717', two templates whose digests begin alike
Chars(n, c) == [i \in 1 .. n |-> c]

AnalysedPrompts ==
    { [template |-> << >>, metrics |-> EmptyDict],
      [template |-> << 104, 105, 32, 123, 120, 125 >>, metrics |-> EmptyDict],
      [template |-> << 104, 105, 32, 123, 120, 125 >>,
       metrics |-> [k \in {"effectiveness_score"} |-> FloatOf(9, 10)]],
      [template |-> Chars(50, 97) \o << 98 >>, metrics |-> EmptyDict],
      [template |-> Chars(50, 97) \o << 99 >>, metrics |-> EmptyDict],
      [template |-> << 116, 57, 48, 57, 51, 56 >>, metrics |-> EmptyDict],
      [template |-> << 116, 57, 53, 55, 49, 55 >>, metrics |-> EmptyDict] }

\* the digests of the prompts above, computed once
KnownHashes ==
    [pd \in AnalysedPrompts |-> Md5Hex8(Utf8(JoinedElements(pd.template, pd.metrics)))]

\* hashlib.md5('|'.join(pattern_elements).encode()).hexdigest()[:8]
pattern_hash(template, metrics) ==
    LET pd == [template |-> template, metrics |-> metrics]
    IN  IF pd \in AnalysedPrompts THEN KnownHashes[pd]
        ELSE Md5Hex8(Utf8(JoinedElements(template, metrics)))

NewTracker == [pattern_combinations |-> << >>, residue_patterns |-> << >>]

\* _discover_novel_patterns: the tracker afterwards and the list returned
\* (discovery_time and first_seen, readings of the clock, are left out)
discover_novel_patterns(tr, template, metrics) ==
    LET h == pattern_hash(template, metrics)
        count == Get(tr.pattern_combinations, h, 0) + 1
        counted == [tr EXCEPT !.pattern_combinations = Put(@, h, count)]
    IN  IF ~Encodable(Prefix(template, 50))
        THEN [tracker |-> tr, raised |-> UnicodeEncodeError, novel_patterns |-> << >>]
        ELSE IF count = emergence_threshold
        THEN [tracker |-> [counted EXCEPT !.residue_patterns =
                              Put(@, h, [pattern_id |-> h, pattern_type |-> "emergent",
                                         strength |-> FloatOf(1, 1),
                                         emergence_count |-> emergence_threshold,
                                         viral_correlation |-> Zero])],
              raised |-> NoRaise,
              novel_patterns |-> << [pattern_id |-> h,
                                     template_signature |-> Prefix(template, 100),
                                     emergence_count |-> emergence_threshold,
                                     first_metrics |-> metrics] >>]
        ELSE [tracker |-> counted, raised |-> NoRaise, novel_patterns |-> << >>]

\* analyze_prompt: _detect_semantic_hooks returns, _detect_structural_patterns
\* divides by the number of words and then calls _calculate_nesting_depth
analyze_prompt(tr, prompt_data) ==
    LET template == Get(prompt_data, "template", << >>)
        metrics == Get(prompt_data, "metrics", EmptyDict)
    IN  IF WordCount(template) = 0
        THEN [tracker |-> tr, raised |-> ZeroDivisionError, value |-> << >>]
        ELSE IF "_calculate_nesting_depth" \notin SymbolicResidueTrackerMethods
        THEN [tracker |-> tr, raised |-> AttributeError, value |-> << >>]
        ELSE IF "_calculate_launch_timing_score" \notin SymbolicResidueTrackerMethods
        THEN [tracker |-> tr, raised |-> AttributeError, value |-> << >>]
        ELSE LET r == discover_novel_patterns(tr, template, metrics)
             IN  [tracker |-> r.tracker, raised |-> AttributeError,
                  value |-> r.novel_patterns]   \* _extract_viral_indicators is missing too

\* ResiduePattern.decay: self.strength *= np.exp(-hours_passed / 168), for
\* hours_passed >= 0; np.exp is taken to return the double nearest to the
\* exponential
WeekHours == 168

decay(pattern, hours_passed) ==
    [pattern EXCEPT !.strength = FMul(@, FExp(FDivInt(FNeg(hours_passed), WeekHours)))]

NoAnalyses == [h \in {} |-> 0]

ObjectsInit ==
    /\ shell = NewShell
    /\ memory = NewMemoryShell
    /\ tracker = NewTracker
    /\ analysed = NoAnalyses

----------------------------------------------------------------------------
(* The sequential specification: one call at a time *)

NoCall == [op |-> "none"]
NoRet == Outcome(NoRaise, << >>)
Snapshot(ui, tp) == [user_interactions |-> ui, trending_patterns |-> tp]

Init ==
    /\ ObjectsInit
    /\ user_interactions = EmptyDict
    /\ trending_patterns = EmptyDict
    /\ viral_handled = [pid \in Items |-> 0]
    /\ now = 0
    /\ call = NoCall
    /\ ret = NoRet
    /\ old = Snapshot(EmptyDict, EmptyDict)
    /\ pc = EmptyDict
    /\ loc = EmptyDict
    /\ key_order = << >>

RecordInteraction(user_id, prompt_id, interaction_type, metadata) ==
    /\ now < MaxFeedCalls
    /\ LET r == record_interaction(user_interactions, trending_patterns, viral_handled,
                                   now + 1, user_id, prompt_id, interaction_type, metadata)
       IN  /\ user_interactions' = r.ui
           /\ trending_patterns' = r.tp
           /\ viral_handled' = r.vh
           /\ ret' = Outcome(r.raised, << >>)
    /\ now' = now + 1
    /\ call' = [op |-> "record_interaction", user_id |-> user_id, prompt_id |-> prompt_id,
                interaction_type |-> interaction_type, metadata |-> metadata]
    /\ old' = Snapshot(user_interactions, trending_patterns)
    /\ UNCHANGED <<pc, loc, key_order, objects>>

\* counts asked of get_feed; 20 is the default of the signature
FeedCounts == {1, 2, 20}

\* whether the item store and the exploration source answer during the call;
\* nothing in the handler depends on it
Upstream == {"available", "unavailable"}

GetFeed(user_id, count, upstream) ==
    /\ now < MaxFeedCalls
    /\ LET r == get_feed(user_interactions, user_id, count)
       IN  /\ user_interactions' = r.ui
           /\ ret' = Outcome(r.raised, r.value)
           /\ call' = [op |-> "get_feed", user_id |-> user_id, count |-> count,
                       upstream |-> upstream,
                       collaborator_calls |-> r.collaborator_calls]
    /\ now' = now + 1
    /\ old' = Snapshot(user_interactions, trending_patterns)
    /\ UNCHANGED <<trending_patterns, viral_handled, pc, loc, key_order, objects>>

\* a direct call of the profile builder
BuildUserProfile(user_id) ==
    /\ now < MaxFeedCalls
    /\ LET r == build_user_profile(user_interactions, user_id)
       IN  /\ user_interactions' = r.ui
           /\ ret' = Outcome(r.raised, r.value)
    /\ now' = now + 1
    /\ call' = [op |-> "_build_user_profile", user_id |-> user_id]
    /\ old' = Snapshot(user_interactions, trending_patterns)
    /\ UNCHANGED <<trending_patterns, viral_handled, pc, loc, key_order, objects>>

Next ==
    \/ \E u \in Users, p \in Items, k \in Kinds \cup UnknownKinds, md \in Metadata :
          RecordInteraction(u, p, k, md)
    \/ \E u \in Users, c \in FeedCounts, up \in Upstream : GetFeed(u, c, up)
    \/ \E u \in Users : BuildUserProfile(u)

Spec == Init /\ [][Next]_vars

----------------------------------------------------------------------------
(* _get_prompt_category *)

\* A template is modelled by the set of keywords its lower-cased text contains.
Keywords == {"startup", "business", "code", "programming",
             "write", "story", "analyze", "data"}

Contains(template, keyword) == keyword \in template

get_prompt_category(prompt) ==
    LET template == prompt.template IN
    IF Contains(template, "startup") \/ Contains(template, "business") THEN "business"
    ELSE IF Contains(template, "code") \/ Contains(template, "programming") THEN "technical"
    ELSE IF Contains(template, "write") \/ Contains(template, "story") THEN "creative"
    ELSE IF Contains(template, "analyze") \/ Contains(template, "data") THEN "analytical"
    ELSE "general"

----------------------------------------------------------------------------
(* _apply_diversity_filter *)

max_per_creator == 2
max_per_category == 5

\* the methods of the built-in set the filter could call; set has no count
SetMethods == {"add", "remove", "discard", "pop", "clear", "copy", "update"}

SetHasMethod(name) == name \in SetMethods

\* seen_categories[category] read through defaultdict(int)
SeenCount(seen_categories, category) ==
    IF category \in DOMAIN seen_categories THEN seen_categories[category] ELSE 0

\* the for loop from position i on; each pass starts by evaluating
\* seen_creators.count(...), an attribute a set does not have
RECURSIVE filter_loop(_, _, _, _, _, _)
filter_loop(scored_candidates, i, target_count, selected, seen_creators, seen_categories) ==
    IF i > Len(scored_candidates) THEN Outcome(NoRaise, selected)
    ELSE IF ~SetHasMethod("count") THEN Outcome(AttributeError, << >>)
    ELSE
        LET prompt == scored_candidates[i][2]
            category == get_prompt_category(prompt)
        IN  IF SeenCount(seen_categories, category) >= max_per_category
            THEN filter_loop(scored_candidates, i + 1, target_count,
                             selected, seen_creators, seen_categories)
            ELSE LET selected1 == Append(selected, prompt)
                     creators1 == seen_creators \cup {prompt.creator_id}
                     categories1 == Put(seen_categories, category,
                                        SeenCount(seen_categories, category) + 1)
                 IN  IF Len(selected1) >= target_count
                     THEN Outcome(NoRaise, selected1)
                     ELSE filter_loop(scored_candidates, i + 1, target_count,
                                      selected1, creators1, categories1)

apply_diversity_filter(scored_candidates, target_count) ==
    filter_loop(scored_candidates, 1, target_count, << >>, {}, EmptyDict)

----------------------------------------------------------------------------
(* _inject_exploration, _get_exploration_candidates *)

\* round(x / 10), halves to the even neighbour as Python's round does
RoundTenth(x) ==
    LET q == x \div 10
        r == x % 10
    IN  IF r < 5 THEN q
        ELSE IF r > 5 THEN q + 1
        ELSE IF q % 2 = 0 THEN q ELSE q + 1

\* max(2, int(target_count * 0.1)): int() truncates the float product
exploration_slots(target_count) == Max2(2, (target_count * 1) \div 10)

\* "Simplified for demonstration": no candidate, whatever the count
get_exploration_candidates(count) == << >>

\* one pass of the for loop: the feeds it can leave, one for every draw of
\* index = random.randint(0, target_count - 1)
inject_step(feed, exp_prompt, target_count) ==
    IF Len(feed) >= target_count
    THEN { [feed EXCEPT ![index + 1] = exp_prompt] : index \in 0 .. (target_count - 1) }
    ELSE { Append(feed, exp_prompt) }

\* the for loop from the j-th exploration prompt on: the set of feeds it can
\* end with
RECURSIVE inject_loop(_, _, _, _)
inject_loop(feed, exploration_prompts, j, target_count) ==
    IF j > Len(exploration_prompts) THEN {feed}
    ELSE UNION { inject_loop(f, exploration_prompts, j + 1, target_count)
                 : f \in inject_step(feed, exploration_prompts[j], target_count) }

\* feed[:target_count]
Truncate(feed, target_count) == SubSeq(feed, 1, Min2(target_count, Len(feed)))

\* the feeds the call can return
inject_exploration(feed, target_count) ==
    LET exploration_prompts == get_exploration_candidates(exploration_slots(target_count))
    IN  { Truncate(f, target_count) : f \in inject_loop(feed, exploration_prompts, 1, target_count) }

----------------------------------------------------------------------------
(* The helpers' specification: one call of one helper on one input *)

MaxCands == 3
MaxFeed == 2
MaxTargetCount == 40

Creators == {"a", "b"}
Templates == {{}, {"startup"}}
Scores == {1, 2}

Prompts == [creator_id : Creators, template : Templates]

SeqsUpTo(S, n) == UNION { [1 .. k -> S] : k \in 0 .. n }

\* lists of (score, prompt) pairs in descending score order
SortedCandidates ==
    { sc \in SeqsUpTo(Scores \X Prompts, MaxCands) :
        \A i \in 1 .. (Len(sc) - 1) : sc[i][1] >= sc[i + 1][1] }

InitHelpers == Init

ApplyDiversityFilter(scored_candidates, target_count) ==
    /\ call = NoCall
    /\ call' = [op |-> "_apply_diversity_filter",
                scored_candidates |-> scored_candidates, target_count |-> target_count]
    /\ ret' = apply_diversity_filter(scored_candidates, target_count)
    /\ UNCHANGED <<user_interactions, trending_patterns, viral_handled, now, old,
                   pc, loc, key_order, objects>>

InjectExploration(feed, target_count) ==
    /\ call = NoCall
    /\ \E out \in inject_exploration(feed, target_count) :
          ret' = Outcome(NoRaise, out)
    /\ call' = [op |-> "_inject_exploration", feed |-> feed, target_count |-> target_count,
                exploration_slots |-> exploration_slots(target_count)]
    /\ UNCHANGED <<user_interactions, trending_patterns, viral_handled, now, old,
                   pc, loc, key_order, objects>>

NextHelpers ==
    \/ \E sc \in SortedCandidates, tc \in 1 .. MaxCands : ApplyDiversityFilter(sc, tc)
    \/ \E feed \in SeqsUpTo(Prompts, MaxFeed), tc \in 1 .. MaxTargetCount :
          InjectExploration(feed, tc)

SpecHelpers == InitHelpers /\ [][NextHelpers]_vars

----------------------------------------------------------------------------
(* _calculate_viral_potential, _calculate_prompt_score *)

\* remix_count / max(usage_count, 1)
remix_rate(prompt) == Ratio(prompt.remix_count, Max2(prompt.usage_count, 1))

\* unique_users / max(usage_count, 1)
user_retention(prompt) == Ratio(prompt.unique_users, Max2(prompt.usage_count, 1))

\* the age, in hours, below which a prompt counts as fresh
DayHours == 24

\* 1.0 if age_hours < 24 else 0.8, the age taken from the wall clock utcnow
recency_boost(prompt, utcnow) ==
    IF utcnow - prompt.created_at < DayHours THEN Scale ELSE (8 * Scale) \div 10

\* the clock is not an argument of the method: it reads datetime.utcnow()
calculate_viral_potential(prompt, utcnow) ==
    MulRatio(Min2(remix_rate(prompt) * 10, Scale), 4, 10)
    + MulRatio(user_retention(prompt), 3, 10)
    + MulRatio(prompt.trending_score, 2, 10)
    + MulRatio(recency_boost(prompt, utcnow), 1, 10)

\* the methods _calculate_prompt_score calls on self to fill its factors
ScoreFactorMethods ==
    << "_count_similar_seen", "_calculate_viral_potential",
       "_calculate_user_affinity", "_get_creator_trust_score" >>

\* scores['effectiveness'] is read, then the factors are evaluated in order;
\* the first one, self._count_similar_seen, is not a method of the class, so
\* the weighted combination and the exploration boost are never reached
calculate_prompt_score(prompt, user_profile, utcnow) ==
    IF \E i \in 1 .. Len(ScoreFactorMethods) : ~HasMethod(ScoreFactorMethods[i])
    THEN Outcome(AttributeError, None)
    ELSE Outcome(NoRaise, None)

----------------------------------------------------------------------------
(* The scoring specification: evaluations of the two scoring methods, one  *)
(* after the other, while the wall clock advances by the hour              *)

MaxClock == 2

\* candidates: never used or used 100 times, remixed or not, created 23 hours
\* before the start of the clock or at its start
ScoredPrompts ==
    [usage_count : {0, 100}, remix_count : {0, 15}, unique_users : {0, 2},
     trending_score : {0}, created_at : {0 - 23, 0}]

Profiles == [exploration_appetite : {Scale \div 2, (8 * Scale) \div 10}]

\* the evaluation before the last one
Evaluation(c, r) == [call |-> c, ret |-> r]

InitScore ==
    /\ ObjectsInit
    /\ user_interactions = EmptyDict
    /\ trending_patterns = EmptyDict
    /\ viral_handled = [pid \in Items |-> 0]
    /\ now = 0
    /\ call = NoCall
    /\ ret = NoRet
    /\ old = Evaluation(NoCall, NoRet)
    /\ pc = EmptyDict
    /\ loc = EmptyDict
    /\ key_order = << >>

\* an hour of wall-clock time passes
Tick ==
    /\ now < MaxClock
    /\ now' = now + 1
    /\ UNCHANGED <<user_interactions, trending_patterns, viral_handled, call, ret, old,
                   pc, loc, key_order, objects>>

CalculateViralPotential(prompt) ==
    /\ call' = [op |-> "_calculate_viral_potential", prompt |-> prompt, utcnow |-> now,
                remix_rate |-> remix_rate(prompt),
                user_retention |-> user_retention(prompt)]
    /\ ret' = Outcome(NoRaise, calculate_viral_potential(prompt, now))
    /\ old' = Evaluation(call, ret)
    /\ UNCHANGED <<user_interactions, trending_patterns, viral_handled, now,
                   pc, loc, key_order, objects>>

CalculatePromptScore(prompt, user_profile) ==
    /\ call' = [op |-> "_calculate_prompt_score", prompt |-> prompt,
                user_profile |-> user_profile, utcnow |-> now]
    /\ ret' = calculate_prompt_score(prompt, user_profile, now)
    /\ old' = Evaluation(call, ret)
    /\ UNCHANGED <<user_interactions, trending_patterns, viral_handled, now,
                   pc, loc, key_order, objects>>

NextScore ==
    \/ Tick
    \/ \E prompt \in ScoredPrompts : CalculateViralPotential(prompt)
    \/ \E prompt \in ScoredPrompts, profile \in Profiles : CalculatePromptScore(prompt, profile)

SpecScore == InitScore /\ [][NextScore]_vars

----------------------------------------------------------------------------
(* PromptShell.execute, PromptShell.fork (src/core/engine/prompt_shell.py) *)

\* self.template.format(**context): a context is the set of keys it gives;
\* a replacement field with no key raises KeyError
execute_prompt(template, context) ==
    IF template \subseteq context
    THEN Outcome(NoRaise, [success |-> (8 * Scale) \div 10,
                           satisfaction |-> (9 * Scale) \div 10, turns |-> 2])
    ELSE Outcome(KeyError, None)

\* the metrics of an execution that do not depend on elapsed time or on the
\* length of the response
ExecutionMetrics(result) ==
    [user_satisfaction |-> result.satisfaction, objective_success |-> result.success,
     interaction_depth |-> result.turns]

\* execute: the counters are written before the provider is called, the
\* history after it; an exception keeps what was written before it
execute(sh, context, user_id, utcnow) ==
    LET sh1 == [sh EXCEPT !.unique_users = @ \cup {user_id},
                          !.usage_count = @ + 1,
                          !.last_used_at = Some(utcnow)]
        result == execute_prompt(sh.template, context)
    IN  IF result.raised # NoRaise
        THEN [shell |-> sh1, raised |-> result.raised, value |-> None]
        ELSE LET metrics == ExecutionMetrics(result.value)
             IN  [shell |-> [sh1 EXCEPT !.execution_history = Append(@, metrics)],
                  raised |-> NoRaise,
                  value |-> Some([result |-> result.value, metrics |-> metrics])]

\* fork with no modifications: the child is a new prompt of the same template
fork(sh, new_creator_id) ==
    LET child == [NewShell EXCEPT !.template = sh.template]
        remix_count == sh.remix_count + 1
    IN  [shell |-> [sh EXCEPT !.children = Append(@, Len(@) + 1),
                              !.remix_count = remix_count,
                              !.viral_coefficient =
                                  Ratio(remix_count, Max2(sh.usage_count, 1))],
         raised |-> NoRaise,
         value |-> Some([creator_id |-> new_creator_id, shell |-> child])]

----------------------------------------------------------------------------
(* The prompt specification: execute and fork calls on one PromptShell;    *)
(* old is the prompt at the entry of the last call                         *)

\* contexts: without and with the key of the template's field
Contexts == {{}, {"role"}}

InitShell ==
    /\ ObjectsInit
    /\ user_interactions = EmptyDict
    /\ trending_patterns = EmptyDict
    /\ viral_handled = [pid \in Items |-> 0]
    /\ now = 0
    /\ call = NoCall
    /\ ret = NoRet
    /\ old = NewShell
    /\ pc = EmptyDict
    /\ loc = EmptyDict
    /\ key_order = << >>

Execute(context, user_id) ==
    /\ now < MaxCalls
    /\ LET r == execute(shell, context, user_id, now + 1)
       IN  /\ shell' = r.shell
           /\ ret' = Outcome(r.raised, r.value)
    /\ now' = now + 1
    /\ call' = [op |-> "execute", context |-> context, user_id |-> user_id]
    /\ old' = shell
    /\ UNCHANGED <<user_interactions, trending_patterns, viral_handled, pc, loc, key_order,
                   memory, residue>>

Fork(new_creator_id) ==
    /\ now < MaxCalls
    /\ LET r == fork(shell, new_creator_id)
       IN  /\ shell' = r.shell
           /\ ret' = Outcome(r.raised, r.value)
    /\ now' = now + 1
    /\ call' = [op |-> "fork", new_creator_id |-> new_creator_id]
    /\ old' = shell
    /\ UNCHANGED <<user_interactions, trending_patterns, viral_handled, pc, loc, key_order,
                   memory, residue>>

NextShell ==
    \/ \E context \in Contexts, u \in Users : Execute(context, u)
    \/ \E u \in Users : Fork(u)

SpecShell == InitShell /\ [][NextShell]_vars

----------------------------------------------------------------------------
(* The memory specification: calls on one RecursiveMemoryShell and on its  *)
(* current (last) layer; old is the object at the entry of the last call   *)

\* the interaction data given to a layer: a user or none, a success metric
\* of 0.0 or 1.0, no pattern or one of strength 1.0
InteractionData ==
    [user_id : {None} \cup {Some(u) : u \in Users},
     success_metric : {0, Scale},
     patterns : {EmptyDict, [pattern \in {"high_success_indicator"} |-> Scale]}]

InitMemory ==
    /\ ObjectsInit
    /\ user_interactions = EmptyDict
    /\ trending_patterns = EmptyDict
    /\ viral_handled = [pid \in Items |-> 0]
    /\ now = 0
    /\ call = NoCall
    /\ ret = NoRet
    /\ old = NewMemoryShell
    /\ pc = EmptyDict
    /\ loc = EmptyDict
    /\ key_order = << >>

\* shell.memory_layers[-1].integrate_experience(interaction_data)
IntegrateExperience(interaction_data) ==
    /\ now < MaxCalls
    /\ LET last == Len(memory.memory_layers)
           r == integrate_experience(memory.memory_layers[last], memory.heap, interaction_data)
       IN  memory' = [memory EXCEPT !.memory_layers[last] = r.layer, !.heap = r.heap]
    /\ now' = now + 1
    /\ call' = [op |-> "integrate_experience", interaction_data |-> interaction_data]
    /\ ret' = NoRet
    /\ old' = memory
    /\ UNCHANGED <<user_interactions, trending_patterns, viral_handled, pc, loc, key_order,
                   shell, residue>>

CreateNewLayer ==
    /\ now < MaxCalls
    /\ memory' = create_new_layer(memory)
    /\ now' = now + 1
    /\ call' = [op |-> "_create_new_layer"]
    /\ ret' = NoRet
    /\ old' = memory
    /\ UNCHANGED <<user_interactions, trending_patterns, viral_handled, pc, loc, key_order,
                   shell, residue>>

Remember(user_id, success) ==
    /\ now < MaxCalls
    /\ LET r == remember(memory, [user_id |-> Some(user_id), success |-> success])
       IN  /\ memory' = r.memory
           /\ ret' = Outcome(r.raised, << >>)
    /\ now' = now + 1
    /\ call' = [op |-> "remember", user_id |-> user_id, success |-> success]
    /\ old' = memory
    /\ UNCHANGED <<user_interactions, trending_patterns, viral_handled, pc, loc, key_order,
                   shell, residue>>

NextMemory ==
    \/ \E interaction_data \in InteractionData : IntegrateExperience(interaction_data)
    \/ CreateNewLayer
    \/ \E u \in Users, success \in {0, Scale} : Remember(u, success)

SpecMemory == InitMemory /\ [][NextMemory]_vars

----------------------------------------------------------------------------
(* The residue specification: calls on one SymbolicResidueTracker *)

MaxAnalyses == 6

\* a day and a week
DecayHours == {FloatOf(24, 1), FloatOf(168, 1)}

InitResidue ==
    /\ ObjectsInit
    /\ user_interactions = EmptyDict
    /\ trending_patterns = EmptyDict
    /\ viral_handled = [pid \in Items |-> 0]
    /\ now = 0
    /\ call = NoCall
    /\ ret = NoRet
    /\ old = NewTracker
    /\ pc = EmptyDict
    /\ loc = EmptyDict
    /\ key_order = << >>

AnalyzePrompt(template, metrics) ==
    /\ now < MaxAnalyses
    /\ LET r == analyze_prompt(tracker, [k \in {"template", "metrics"} |->
                                            IF k = "template" THEN template ELSE metrics])
       IN  /\ tracker' = r.tracker
           /\ ret' = Outcome(r.raised, r.value)
    /\ analysed' = Put(analysed, pattern_hash(template, metrics),
                       Get(analysed, pattern_hash(template, metrics), 0) + 1)
    /\ now' = now + 1
    /\ call' = [op |-> "analyze_prompt", template |-> template, metrics |-> metrics]
    /\ UNCHANGED <<user_interactions, trending_patterns, viral_handled, old, pc, loc,
                   key_order, shell, memory>>

\* tracker._discover_novel_patterns(template, metrics)
DiscoverNovelPatterns(template, metrics) ==
    /\ now < MaxAnalyses
    /\ LET r == discover_novel_patterns(tracker, template, metrics)
       IN  /\ tracker' = r.tracker
           /\ ret' = Outcome(r.raised, r.novel_patterns)
    /\ now' = now + 1
    /\ call' = [op |-> "_discover_novel_patterns", template |-> template,
                metrics |-> metrics]
    /\ UNCHANGED <<user_interactions, trending_patterns, viral_handled, old, pc, loc,
                   key_order, shell, memory, analysed>>

\* tracker.residue_patterns[pattern_id].decay(hours_passed)
DecayPattern(pattern_id, hours_passed) ==
    /\ now < MaxAnalyses
    /\ pattern_id \in DOMAIN tracker.residue_patterns
    /\ tracker' = [tracker EXCEPT !.residue_patterns[pattern_id] = decay(@, hours_passed)]
    /\ ret' = NoRet
    /\ now' = now + 1
    /\ call' = [op |-> "decay", pattern_id |-> pattern_id, hours_passed |-> hours_passed]
    /\ UNCHANGED <<user_interactions, trending_patterns, viral_handled, old, pc, loc,
                   key_order, shell, memory, analysed>>

NextResidue ==
    \/ \E pd \in AnalysedPrompts : AnalyzePrompt(pd.template, pd.metrics)
    \/ \E pd \in AnalysedPrompts : DiscoverNovelPatterns(pd.template, pd.metrics)
    \/ \E pattern_id \in DOMAIN tracker.residue_patterns, hours_passed \in DecayHours :
           DecayPattern(pattern_id, hours_passed)

SpecResidue == InitResidue /\ [][NextResidue]_vars

----------------------------------------------------------------------------
(* The concurrent specification: record_interaction calls of several       *)
(* threads, interleaved at the individual reads and writes of              *)
(* user_interactions and trending_patterns.  The class takes no lock.      *)

Threads == {"t1", "t2"}

\* the kinds whose call completes when it runs alone
ConcKinds == {"view", "share"}

\* up to k decays of the momentum st.m, stopping before the one that takes
\* it below 0.01; st.n counts the decays made.  The decays are made by halves
\* of k to keep the evaluation shallow
RECURSIVE DecayTimes(_, _)
DecayTimes(st, k) ==
    IF k = 0 \/ IsZero(st.m) THEN st
    ELSE IF k = 1
    THEN IF FLess(Decay(st.m), Epsilon) THEN st
         ELSE [m |-> Decay(st.m), n |-> st.n + 1]
    ELSE DecayTimes(DecayTimes(st, k \div 2), k - (k \div 2))

\* an item viewed once, decayed until one more decay deletes it
MaxLifetime == 512
AgedMomentum == DecayTimes([m |-> weight_map.view, n |-> 0], MaxLifetime)

\* the calls an item viewed once lives through: its momentum is still >= 0.01
\* after this many decays and below it after one more
ViewLifetime == AgedMomentum.n

\* the state after u1 viewed p1 and ViewLifetime - 1 later calls of
\* record_interaction('u1', 'p2', 'like', ..) decayed it: p1 is one decay
\* away from deletion
AgedView == Interaction("p1", 0, "view", "md")
AgedUsers == [u \in {"u1"} |-> [NewUserData EXCEPT !.views = << AgedView >>]]
AgedTrend == [pid \in {"p1"} |-> AgedMomentum.m]

ThreadLocals(user_id, prompt_id, interaction_type, metadata) ==
    [user_id |-> user_id, prompt_id |-> prompt_id,
     interaction_type |-> interaction_type, metadata |-> metadata,
     timestamp |-> 0,       \* timestamp = datetime.utcnow()
     attached |-> FALSE,    \* user_data is the dict user_interactions holds for user_id
     tmp |-> Zero,          \* the value read, before it is written back
     keys |-> << >>,        \* what is left of list(self.trending_patterns.keys())
     raised |-> NoRaise]

InitConc ==
    /\ ObjectsInit
    /\ \/ /\ user_interactions = EmptyDict
          /\ trending_patterns = EmptyDict
          /\ key_order = << >>
       \/ /\ user_interactions = AgedUsers
          /\ trending_patterns = AgedTrend
          /\ key_order = << "p1" >>
    /\ viral_handled = [pid \in Items |-> 0]
    /\ now = 0
    /\ call = NoCall
    /\ ret = NoRet
    /\ old = Snapshot(user_interactions, trending_patterns)
    /\ pc = [t \in Threads |-> "L83"]
    /\ loc \in [Threads -> { ThreadLocals(u, p, k, md) :
                               u \in Users, p \in Items, k \in ConcKinds, md \in Metadata }]

Goto(t, label) == pc' = [pc EXCEPT ![t] = label]

\* self.trending_patterns[k] read: defaultdict inserts 0.0 for a missing key
ReadTrend(k) ==
    IF k \in DOMAIN trending_patterns
    THEN UNCHANGED <<trending_patterns, key_order, objects>>
    ELSE /\ trending_patterns' = Put(trending_patterns, k, Zero)
         /\ key_order' = Append(key_order, k)

\* self.trending_patterns[k] = v
WriteTrend(k, v) ==
    /\ trending_patterns' = Put(trending_patterns, k, v)
    /\ key_order' = IF k \in DOMAIN trending_patterns THEN key_order
                    ELSE Append(key_order, k)

\* line 83-90: the timestamp and the interaction record, both local
T_Begin(t) ==
    /\ pc[t] = "L83"
    /\ now' = now + 1
    /\ loc' = [loc EXCEPT ![t].timestamp = now + 1]
    /\ Goto(t, "L93")
    /\ UNCHANGED <<user_interactions, trending_patterns, viral_handled, call, ret, old,
                   key_order, objects>>

\* line 93: user_data = self.user_interactions[user_id], the key present
T_GetUser(t) ==
    /\ pc[t] = "L93"
    /\ IF loc[t].user_id \in DOMAIN user_interactions
       THEN /\ loc' = [loc EXCEPT ![t].attached = TRUE]
            /\ Goto(t, "L95")
       ELSE /\ loc' = loc
            /\ Goto(t, "L93_missing")
    /\ UNCHANGED <<user_interactions, trending_patterns, viral_handled, now, call, ret,
                   old, key_order, objects>>

\* line 93, key missing: the default factory (the lambda of lines 29-35) has
\* built a dict and defaultdict stores it under the key, replacing whatever
\* another thread stored there meanwhile; that thread's user_data is then a
\* dict the map no longer holds
T_InsertUser(t) ==
    /\ pc[t] = "L93_missing"
    /\ user_interactions' = Put(user_interactions, loc[t].user_id, NewUserData)
    /\ loc' = [o \in Threads |->
                 IF o = t THEN [loc[o] EXCEPT !.attached = TRUE]
                 ELSE IF loc[o].user_id = loc[t].user_id
                      THEN [loc[o] EXCEPT !.attached = FALSE]
                      ELSE loc[o]]
    /\ Goto(t, "L95")
    /\ UNCHANGED <<trending_patterns, viral_handled, now, call, ret, old, key_order, objects>>

\* lines 95-105: the append to user_data (list.append is atomic)
T_Append(t) ==
    /\ pc[t] = "L95"
    /\ user_interactions' =
          IF loc[t].attached
          THEN AppendLog(user_interactions, loc[t].user_id,
                         Interaction(loc[t].prompt_id, loc[t].timestamp,
                                     loc[t].interaction_type, loc[t].metadata))
          ELSE user_interactions
    /\ Goto(t, "L265_read")
    /\ UNCHANGED <<trending_patterns, viral_handled, now, call, ret, old, loc, key_order, objects>>

\* line 265, self.trending_patterns[prompt_id] += weight: the read
T_ReadMomentum(t) ==
    /\ pc[t] = "L265_read"
    /\ loc' = [loc EXCEPT ![t].tmp = Momentum(trending_patterns, loc[t].prompt_id)]
    /\ ReadTrend(loc[t].prompt_id)
    /\ Goto(t, "L265_write")
    /\ UNCHANGED <<user_interactions, viral_handled, now, call, ret, old, objects>>

\* line 265: the write
T_WriteMomentum(t) ==
    /\ pc[t] = "L265_write"
    /\ WriteTrend(loc[t].prompt_id, FAdd(loc[t].tmp, EventWeight(loc[t].interaction_type)))
    /\ Goto(t, "L268")
    /\ UNCHANGED <<user_interactions, viral_handled, now, call, ret, old, loc, objects>>

\* line 268: list(self.trending_patterns.keys())
T_ListKeys(t) ==
    /\ pc[t] = "L268"
    /\ loc' = [loc EXCEPT ![t].keys = key_order]
    /\ Goto(t, IF key_order = << >> THEN "L111" ELSE "L269_read")
    /\ UNCHANGED <<user_interactions, trending_patterns, viral_handled, now, call, ret,
                   old, key_order, objects>>

\* line 269, self.trending_patterns[pid] *= 0.99: the read
T_DecayRead(t) ==
    /\ pc[t] = "L269_read"
    /\ loc' = [loc EXCEPT ![t].tmp = Momentum(trending_patterns, Head(loc[t].keys))]
    /\ ReadTrend(Head(loc[t].keys))
    /\ Goto(t, "L269_write")
    /\ UNCHANGED <<user_interactions, viral_handled, now, call, ret, old, objects>>

\* line 269: the write
T_DecayWrite(t) ==
    /\ pc[t] = "L269_write"
    /\ WriteTrend(Head(loc[t].keys), Decay(loc[t].tmp))
    /\ Goto(t, "L270")
    /\ UNCHANGED <<user_interactions, viral_handled, now, call, ret, old, loc, objects>>

NextKey(t) == IF Tail(loc[t].keys) = << >> THEN "L111" ELSE "L269_read"

\* line 270: if self.trending_patterns[pid] < 0.01
T_DecayCheck(t) ==
    /\ pc[t] = "L270"
    /\ ReadTrend(Head(loc[t].keys))
    /\ IF FLess(Momentum(trending_patterns, Head(loc[t].keys)), Epsilon)
       THEN /\ Goto(t, "L271")
            /\ loc' = loc
       ELSE /\ Goto(t, NextKey(t))
            /\ loc' = [loc EXCEPT ![t].keys = Tail(@)]
    /\ UNCHANGED <<user_interactions, viral_handled, now, call, ret, old, objects>>

\* line 271: del self.trending_patterns[pid]; KeyError when the key is gone
T_DecayDel(t) ==
    /\ pc[t] = "L271"
    /\ LET k == Head(loc[t].keys) IN
       IF k \in DOMAIN trending_patterns
       THEN /\ trending_patterns' = Del(trending_patterns, k)
            /\ key_order' = SelectSeq(key_order, LAMBDA x : x # k)
            /\ loc' = [loc EXCEPT ![t].keys = Tail(@)]
            /\ Goto(t, NextKey(t))
       ELSE /\ loc' = [loc EXCEPT ![t].raised = KeyError]
            /\ Goto(t, "done")
            /\ UNCHANGED <<trending_patterns, key_order, objects>>
    /\ UNCHANGED <<user_interactions, viral_handled, now, call, ret, old, objects>>

\* line 111: _check_viral_threshold, which reads _get_prompt_data alone
T_CheckViral(t) ==
    /\ pc[t] = "L111"
    /\ LET v == check_viral_threshold(trending_patterns, viral_handled, loc[t].prompt_id)
       IN  /\ trending_patterns' = v.tp
           /\ viral_handled' = v.vh
    /\ Goto(t, "done")
    /\ UNCHANGED <<user_interactions, now, call, ret, old, loc, key_order, objects>>

NextConc ==
    \E t \in Threads :
        \/ T_Begin(t)
        \/ T_GetUser(t)
        \/ T_InsertUser(t)
        \/ T_Append(t)
        \/ T_ReadMomentum(t)
        \/ T_WriteMomentum(t)
        \/ T_ListKeys(t)
        \/ T_DecayRead(t)
        \/ T_DecayWrite(t)
        \/ T_DecayCheck(t)
        \/ T_DecayDel(t)
        \/ T_CheckViral(t)

SpecConc == InitConc /\ [][NextConc]_vars

----------------------------------------------------------------------------
(* The long-run specification: record_interaction and direct viral-check   *)
(* calls on an instance that is fresh, or has served many calls already    *)

LongRun == 2000

\* the momentum of an item after n more share events for it, by halves to
\* keep the evaluation shallow
RECURSIVE ShareTimes(_, _)
ShareTimes(m, n) ==
    IF n = 0 \/ FLess(m, Zero) THEN m
    ELSE IF n = 1 THEN Decay(FAdd(m, weight_map.share))
    ELSE ShareTimes(ShareTimes(m, n \div 2), n - (n \div 2))

\* the state after LongRun calls of record_interaction('u1', 'p1', 'share', ..):
\* a share appends to no log, and p1's momentum has all but stopped rising
SharedUsers == [u \in {"u1"} |-> NewUserData]
SharedTrend == [pid \in {"p1"} |-> ShareTimes(Zero, LongRun)]

InitLong ==
    /\ ObjectsInit
    /\ \/ /\ user_interactions = EmptyDict
          /\ trending_patterns = EmptyDict
       \/ /\ user_interactions = AgedUsers
          /\ trending_patterns = AgedTrend
       \/ /\ user_interactions = SharedUsers
          /\ trending_patterns = SharedTrend
    /\ viral_handled = [pid \in Items |-> 0]
    /\ now = 0
    /\ call = NoCall
    /\ ret = NoRet
    /\ old = Snapshot(user_interactions, trending_patterns)
    /\ pc = EmptyDict
    /\ loc = EmptyDict
    /\ key_order = << >>

\* a direct call of the viral check
CheckViralThreshold(prompt_id) ==
    /\ now < MaxFeedCalls
    /\ LET v == check_viral_threshold(trending_patterns, viral_handled, prompt_id)
       IN  /\ trending_patterns' = v.tp
           /\ viral_handled' = v.vh
    /\ now' = now + 1
    /\ call' = [op |-> "_check_viral_threshold", prompt_id |-> prompt_id]
    /\ ret' = NoRet
    /\ old' = Snapshot(user_interactions, trending_patterns)
    /\ UNCHANGED <<user_interactions, pc, loc, key_order, objects>>

NextLong ==
    \/ \E u \in Users, p \in Items, k \in Kinds \cup UnknownKinds, md \in Metadata :
          RecordInteraction(u, p, k, md)
    \/ \E p \in Items : CheckViralThreshold(p)

SpecLong == InitLong /\ [][NextLong]_vars

----------------------------------------------------------------------------
(* The idle specification: record_interaction calls, between which and     *)
(* after which wall-clock time passes with no call.  Time passes whatever  *)
(* the clients do (weak fairness of Elapse); no client is obliged to call.   *)

\* an hour passes with no call; the clock can run MaxClock hours past the
\* last call a run can make
Elapse ==
    /\ now < MaxFeedCalls + MaxClock
    /\ now' = now + 1
    /\ UNCHANGED <<user_interactions, trending_patterns, viral_handled, call, ret, old,
                   pc, loc, key_order, objects>>

NextIdle ==
    \/ \E u \in Users, p \in Items, k \in Kinds \cup UnknownKinds, md \in Metadata :
          RecordInteraction(u, p, k, md)
    \/ Elapse

SpecIdle == Init /\ [][NextIdle]_vars /\ WF_vars(Elapse)

----------------------------------------------------------------------------
(* Claims about the sequential specification *)

KnownKindCall == call.op = "record_interaction" /\ call.interaction_type \in Kinds
UnknownKindCall == call.op = "record_interaction" /\ call.interaction_type \notin Kinds

\* the logs and affinities of a user, present in the map or not
UserData(ui, user_id) == IF user_id \in DOMAIN ui THEN ui[user_id] ELSE NewUserData

LogNames == {"views", "uses", "remixes", "skips"}

EventCount(ui, user_id) ==
    LET d == UserData(ui, user_id)
    IN  Len(d.views) + Len(d.uses) + Len(d.remixes) + Len(d.skips)

IsPrefix(s, t) == Len(s) <= Len(t) /\ SubSeq(t, 1, Len(s)) = s

LogsExtend(a, b) ==
    /\ IsPrefix(a.views, b.views)
    /\ IsPrefix(a.uses, b.uses)
    /\ IsPrefix(a.remixes, b.remixes)
    /\ IsPrefix(a.skips, b.skips)

\* remix_count / usage_count of the item store is above the viral threshold
AboveViralThreshold(pid) ==
    /\ ItemStore[pid].usage_count > 0
    /\ ItemStore[pid].remix_count * RemixRateDen > ItemStore[pid].usage_count * RemixRateNum

\* C2: an item whose remix rate is above the threshold (p1, 15/100, from the
\* first call on) has had its momentum doubled exactly once after any
\* completed record_interaction (which ends with the viral check) for it.
C2_AmplifiedExactlyOnce ==
    \A pid \in Items :
        ( /\ call.op = "record_interaction"
          /\ call.prompt_id = pid
          /\ ret.raised = NoRaise
          /\ AboveViralThreshold(pid) )
        => viral_handled[pid] = 1

\* C3: record_interaction with one of the five kinds, and get_feed with a
\* count >= 1, complete without raising.
C3_NoErrorOnNormalInput ==
    (KnownKindCall \/ call.op = "get_feed") => ret.raised = NoRaise

\* C4: record_interaction with a kind outside the five leaves every user's
\* logs and affinities and the momentum of every item as they were.
C4_UnknownKindIgnored ==
    UnknownKindCall =>
        /\ \A u \in Users :
              UserData(user_interactions, u) = UserData(old.user_interactions, u)
        /\ \A pid \in Items :
              Momentum(trending_patterns, pid) = Momentum(old.trending_patterns, pid)

\* C5: get_feed returns a sequence of length at most count.
C5_FeedLengthAtMostCount ==
    call.op = "get_feed" =>
        /\ ret.raised = NoRaise
        /\ Len(ret.value) <= call.count

PositiveKinds == {"view", "use", "remix", "share"}

\* C7: across a call the momentum of an item rises only if the call records a
\* view, use, remix or share for that item; across every other call (a skip,
\* an event for another item, get_feed) it stays or falls.
C7_MomentumRisesOnlyOnPositiveEvent ==
    \A pid \in Items :
        FLess(Momentum(old.trending_patterns, pid), Momentum(trending_patterns, pid))
        => /\ call.op = "record_interaction"
           /\ call.prompt_id = pid
           /\ call.interaction_type \in PositiveKinds

\* a completed call for one item has decayed the positive momentum of another
C7_Witness ==
    /\ call.op = "record_interaction"
    /\ ret.raised = NoRaise
    /\ \E pid \in Items \ {call.prompt_id} :
          /\ FLess(Zero, Momentum(trending_patterns, pid))
          /\ FLess(Momentum(trending_patterns, pid), Momentum(old.trending_patterns, pid))
    /\ FLess(Momentum(old.trending_patterns, call.prompt_id),
             Momentum(trending_patterns, call.prompt_id))

\* C9: record_interaction for item X leaves the trend entry of every other
\* item as it was.
C9_OnlyOwnTrendEntry ==
    call.op = "record_interaction" =>
        \A pid \in Items \ {call.prompt_id} :
            /\ Momentum(trending_patterns, pid) = Momentum(old.trending_patterns, pid)
            /\ (pid \in DOMAIN trending_patterns) = (pid \in DOMAIN old.trending_patterns)

\* C10: record_interaction with one of the five kinds appends exactly one
\* event to the caller's logs, keeps every recorded event, and leaves the
\* logs of the other users alone.
C10_AppendsExactlyOneEvent ==
    KnownKindCall =>
        /\ EventCount(user_interactions, call.user_id)
              = EventCount(old.user_interactions, call.user_id) + 1
        /\ \A u \in Users :
              LogsExtend(UserData(old.user_interactions, u), UserData(user_interactions, u))
        /\ \A u \in Users \ {call.user_id} :
              UserData(user_interactions, u) = UserData(old.user_interactions, u)

----------------------------------------------------------------------------
(* Claims about the helpers *)

CountWhere(seq, P(_)) == Cardinality({i \in 1 .. Len(seq) : P(seq[i])})

\* C1: the Diversity Filter returns a list holding at most max_per_creator (2)
\* candidates of one creator and at most max_per_category (5) of one category.
C1_FilterRespectsCaps ==
    call.op = "_apply_diversity_filter" =>
        /\ ret.raised = NoRaise
        /\ \A c \in Creators :
              LET FromCreator(prompt) == prompt.creator_id = c
              IN  CountWhere(ret.value, FromCreator) <= 2
        /\ \A p \in Prompts :
              LET SameCategory(prompt) == get_prompt_category(prompt) = get_prompt_category(p)
              IN  CountWhere(ret.value, SameCategory) <= 5

\* C6: the exploration source is asked for
\* max(2, round(0.1 * target_count)) candidates.
C6_SlotsAreRounded ==
    call.op = "_inject_exploration" =>
        call.exploration_slots = Max2(2, RoundTenth(call.target_count))

----------------------------------------------------------------------------
(* Claims about the concurrent specification *)

AllDone == \A t \in Threads : pc[t] = "done"

\* the calls of the threads run one after the other, in the order given
RECURSIVE RunInOrder(_, _, _, _)
RunInOrder(order, ui, tp, ts) ==
    IF order = << >> THEN Snapshot(ui, tp)
    ELSE LET l == loc[Head(order)]
             r == record_interaction(ui, tp, viral_handled, ts, l.user_id, l.prompt_id,
                                     l.interaction_type, l.metadata)
         IN  RunInOrder(Tail(order), r.ui, r.tp, ts + 1)

ThreadOrders ==
    { o \in [1 .. Cardinality(Threads) -> Threads] :
        \A i, j \in DOMAIN o : i # j => o[i] # o[j] }

\* the logs with the timestamps left out
WithoutTime(log) ==
    [i \in 1 .. Len(log) |->
        [prompt_id |-> log[i].prompt_id, type |-> log[i].type, metadata |-> log[i].metadata]]

SameLogs(ui1, ui2) ==
    \A u \in Users :
        /\ WithoutTime(UserData(ui1, u).views) = WithoutTime(UserData(ui2, u).views)
        /\ WithoutTime(UserData(ui1, u).uses) = WithoutTime(UserData(ui2, u).uses)
        /\ WithoutTime(UserData(ui1, u).remixes) = WithoutTime(UserData(ui2, u).remixes)
        /\ WithoutTime(UserData(ui1, u).skips) = WithoutTime(UserData(ui2, u).skips)

\* C8: when all the concurrent calls have ended, none has raised, and the
\* event logs and the trend map are those some sequential order of the same
\* calls leaves.
C8_ConcurrentCallsSerializable ==
    AllDone =>
        /\ \A t \in Threads : loc[t].raised = NoRaise
        /\ \E o \in ThreadOrders :
              LET seq == RunInOrder(o, old.user_interactions, old.trending_patterns, 1)
              IN  /\ SameLogs(user_interactions, seq.user_interactions)
                  /\ trending_patterns = seq.trending_patterns

----------------------------------------------------------------------------
(* Claims about the scoring specification *)

\* C11: when usage_count is 0, the ratios with usage_count as denominator
\* (remix rate, retention) evaluate to 0 whatever the numerator, and the
\* evaluation raises no error.
C11_ZeroUsageRatiosAreZero ==
    (call.op = "_calculate_viral_potential" /\ call.prompt.usage_count = 0) =>
        /\ ret.raised = NoRaise
        /\ call.remix_rate = 0
        /\ call.user_retention = 0

\* C13: two evaluations for identical inputs, one after the other, both return
\* a score, and the same score, whatever the wall-clock time of each.
C13_ScoreDeterministic ==
    ( /\ call.op \in {"_calculate_prompt_score", "_calculate_viral_potential"}
      /\ old.call.op = call.op
      /\ old.call.prompt = call.prompt
      /\ call.op = "_calculate_prompt_score" => old.call.user_profile = call.user_profile )
    => /\ ret.raised = NoRaise
       /\ ret = old.ret

----------------------------------------------------------------------------
(* Claims of the second group about the sequential specification *)

\* C12: after a completed record_interaction for an item, the item has been
\* amplified if and only if its remix rate is strictly above 0.10: an item
\* at 5/100 (p2) never is, an item at 15/100 (p1) is.
C12_AmplifiedIffAboveThreshold ==
    (call.op = "record_interaction" /\ ret.raised = NoRaise) =>
        /\ \A pid \in Items : ~AboveViralThreshold(pid) => viral_handled[pid] = 0
        /\ AboveViralThreshold(call.prompt_id) => viral_handled[call.prompt_id] > 0

\* the failure kind of an unavailable collaborator
UpstreamUnavailable == "UpstreamUnavailable"

\* C15: a get_feed call made while the item store or the exploration source
\* is unavailable ends with the failure kind "upstream unavailable", and has
\* called the failing collaborator exactly once.
C15_UpstreamUnavailableReported ==
    (call.op = "get_feed" /\ call.upstream = "unavailable") =>
        /\ ret.raised = UpstreamUnavailable
        /\ call.collaborator_calls = 1

\* the exploration appetite above which the score is boosted
HighAppetite == (7 * Scale) \div 10

\* C16: building the profile of a user with no recorded event succeeds, and
\* the profile has every category affinity at 0 and a high exploration
\* appetite.
C16_ColdStartProfile ==
    ( /\ call.op = "_build_user_profile"
      /\ EventCount(old.user_interactions, call.user_id) = 0 ) =>
        /\ ret.raised = NoRaise
        /\ ret.value # None
        /\ \A c \in DOMAIN ret.value[1].category_preferences :
              ret.value[1].category_preferences[c] = 0
        /\ ret.value[1].exploration_appetite > HighAppetite

----------------------------------------------------------------------------
(* Claims of the second group about the helpers *)

\* the prompts of a list of (score, prompt) pairs
PromptsOf(scored_candidates) ==
    [i \in 1 .. Len(scored_candidates) |-> scored_candidates[i][2]]

\* s is t with some entries left out
IsSubsequence(s, t) ==
    \E f \in [1 .. Len(s) -> 1 .. Len(t)] :
        /\ \A i \in 1 .. Len(s) : s[i] = t[f[i]]
        /\ \A i \in 1 .. (Len(s) - 1) : f[i] < f[i + 1]

\* C17: the Diversity Filter returns a subsequence of the input candidates:
\* the same relative order, and no candidate that was not in the input.
C17_FilterPreservesOrder ==
    call.op = "_apply_diversity_filter" =>
        /\ ret.raised = NoRaise
        /\ IsSubsequence(ret.value, PromptsOf(call.scored_candidates))

\* the greedy single pass of the claim: accept while fewer than 2 accepted
\* share the creator and fewer than 5 the category, stop at target_count
RECURSIVE GreedyPass(_, _, _, _)
GreedyPass(candidates, i, target_count, accepted) ==
    IF i > Len(candidates) \/ Len(accepted) >= target_count THEN accepted
    ELSE LET c == candidates[i]
             SameCreator(prompt) == prompt.creator_id = c.creator_id
             SameCategory(prompt) == get_prompt_category(prompt) = get_prompt_category(c)
         IN  IF CountWhere(accepted, SameCreator) < 2 /\ CountWhere(accepted, SameCategory) < 5
             THEN GreedyPass(candidates, i + 1, target_count, Append(accepted, c))
             ELSE GreedyPass(candidates, i + 1, target_count, accepted)

\* C18: the Diversity Filter returns exactly what the greedy single pass
\* accepts.
C18_FilterIsGreedyPass ==
    call.op = "_apply_diversity_filter" =>
        /\ ret.raised = NoRaise
        /\ ret.value = GreedyPass(PromptsOf(call.scored_candidates), 1,
                                  call.target_count, << >>)

----------------------------------------------------------------------------
(* Claims about the long-run specification *)

\* the largest event weight is 2.0, and (m + 2.0) * 0.99 <= m once m >= 198
MomentumBound == FMul(FloatOf(99, 1), weight_map.remix)

\* C19: whatever record_interaction and viral-check calls were made, and
\* however many, the momentum of every item is below 198 (99 times the
\* largest event weight): checks of an item above the viral threshold do
\* not multiply it past the bound.
C19_MomentumBelowBound ==
    \A pid \in Items : FLess(Momentum(trending_patterns, pid), MomentumBound)

\* p1, an item above the viral threshold whose momentum had stopped rising
\* after LongRun shares, has been shared and checked twice more
C19_Witness ==
    /\ AboveViralThreshold("p1")
    /\ now >= 2
    /\ call.op = "record_interaction"
    /\ call.interaction_type = "share"
    /\ call.prompt_id = "p1"
    /\ ret.raised = NoRaise
    /\ FLess(FloatOf(148, 1), Momentum(old.trending_patterns, "p1"))
    /\ ~FLess(Momentum(trending_patterns, "p1"), Momentum(old.trending_patterns, "p1"))

\* 0.01
ClaimedFloor == FloatOf(1, 100)

\* C20: after a completed record_interaction every entry of the trend map
\* has momentum >= 0.01, so none is zero or negative.
C20_StoredMomentumAtLeastThreshold ==
    (call.op = "record_interaction" /\ ret.raised = NoRaise) =>
        \A pid \in DOMAIN trending_patterns :
            /\ ~FLess(trending_patterns[pid], ClaimedFloor)
            /\ FLess(Zero, trending_patterns[pid])

\* a completed call that removed an entry whose momentum fell below 0.01
C20_Witness ==
    /\ call.op = "record_interaction"
    /\ ret.raised = NoRaise
    /\ \E pid \in DOMAIN old.trending_patterns :
          /\ pid \notin DOMAIN trending_patterns
          /\ FLess(Decay(old.trending_patterns[pid]), ClaimedFloor)

----------------------------------------------------------------------------
(* Claims about the idle specification *)

\* C21: an entry of the trend map is eventually evicted once no further
\* event is recorded for its item, by the passing of time alone (the calls
\* of a run are finitely many, so every run ends with no further event).
C21_IdleEntryEvicted ==
    \A pid \in Items :
        (pid \in DOMAIN trending_patterns) ~> (pid \notin DOMAIN trending_patterns)

----------------------------------------------------------------------------
(* Claims of the third group about the sequential specification *)

\* the event weights of the claim
ClaimedWeight ==
    [view |-> FloatOf(1, 10), use |-> FloatOf(1, 2), remix |-> FloatOf(2, 1),
     share |-> FloatOf(3, 2), skip |-> FNeg(FloatOf(3, 10))]

\* C22: record_interaction with any of the five kinds on item X adds the
\* kind's weight to X's momentum (0 when X has no entry); what the call leaves
\* is that sum after the decay of the same call, or no entry when the decayed
\* sum is below 0.01.
C22_MomentumGainsEventWeight ==
    KnownKindCall =>
        LET m == Decay(FAdd(Momentum(old.trending_patterns, call.prompt_id),
                            ClaimedWeight[call.interaction_type]))
        IN  Momentum(trending_patterns, call.prompt_id)
                = IF FLess(m, ClaimedFloor) THEN Zero ELSE m

Categories == {"business", "technical", "creative", "analytical", "general"}

\* affinity[cat] of a user, 0 when absent
Affinity(ui, user_id, cat) ==
    LET categories == UserData(ui, user_id).categories
    IN  IF cat \in DOMAIN categories THEN categories[cat] ELSE 0

\* the affinity weights of the claim
AffinityWeight == [use |-> Scale, remix |-> 2 * Scale, skip |-> 0 - (Scale \div 2)]

\* C23: a use, remix or skip moves the caller's affinity for the category of
\* the item to affinity * 0.9 + weight * 0.1; every other affinity, every
\* other user's, and all of them on a view, stay as they were.
C23_AffinityMovingAverage ==
    KnownKindCall =>
        /\ \A u \in Users \ {call.user_id}, c \in Categories :
              Affinity(user_interactions, u, c) = Affinity(old.user_interactions, u, c)
        /\ call.interaction_type \notin DOMAIN AffinityWeight =>
              \A c \in Categories :
                  Affinity(user_interactions, call.user_id, c)
                      = Affinity(old.user_interactions, call.user_id, c)
        /\ call.interaction_type \in DOMAIN AffinityWeight =>
              \E cat \in Categories :
                  /\ Affinity(user_interactions, call.user_id, cat)
                        = MulRatio(Affinity(old.user_interactions, call.user_id, cat), 9, 10)
                          + MulRatio(AffinityWeight[call.interaction_type], 1, 10)
                  /\ \A c \in Categories \ {cat} :
                        Affinity(user_interactions, call.user_id, c)
                            = Affinity(old.user_interactions, call.user_id, c)

\* C24: the feed get_feed returns holds at most 2 items of any one creator
\* and at most 5 of any one category, exploration items included.
C24_ReturnedFeedRespectsCaps ==
    call.op = "get_feed" =>
        /\ ret.raised = NoRaise
        /\ \A i \in 1 .. Len(ret.value) :
              LET FromCreator(prompt) == prompt.creator_id = ret.value[i].creator_id
                  SameCategory(prompt) ==
                      get_prompt_category(prompt) = get_prompt_category(ret.value[i])
              IN  /\ CountWhere(ret.value, FromCreator) <= 2
                  /\ CountWhere(ret.value, SameCategory) <= 5

----------------------------------------------------------------------------
(* Claims about the prompt specification *)

\* C25: after any sequence of execute and fork calls, viral_coefficient is
\* remix_count / max(usage_count, 1) of the current counters.
C25_ViralCoefficientIsCurrentRatio ==
    shell.viral_coefficient = Ratio(shell.remix_count, Max2(shell.usage_count, 1))

\* C26: an execute call that fails because the context does not fill the
\* template leaves usage_count, unique_users, last_used_at and
\* execution_history as they were before the call.
C26_FailedExecuteChangesNothing ==
    (call.op = "execute" /\ ret.raised = KeyError) =>
        /\ shell.usage_count = old.usage_count
        /\ shell.unique_users = old.unique_users
        /\ shell.last_used_at = old.last_used_at
        /\ shell.execution_history = old.execution_history

----------------------------------------------------------------------------
(* Claims about the memory specification *)

\* what layer i of a memory shell has learned: its patterns, and the
\* success_rate it holds for each user
Learned(m, i) ==
    LET layer == m.memory_layers[i]
    IN  [learned_patterns |-> layer.learned_patterns,
         success_rate |-> [u \in DOMAIN layer.user_adaptations |->
                              m.heap[layer.user_adaptations[u]].success_rate]]

\* C27: an integration into the last layer, and a remember call, leave the
\* learned_patterns and the per-user success_rate of every earlier layer as
\* they were.
C27_EarlierLayersUnchanged ==
    call.op \in {"integrate_experience", "remember"} =>
        \A i \in 1 .. (Len(memory.memory_layers) - 1) : Learned(memory, i) = Learned(old, i)

----------------------------------------------------------------------------
(* Claims about the residue specification *)

\* the signature of the prompt the last call was made with
CallSignature == pattern_hash(call.template, call.metrics)

\* the last call returned a discovery of the signature it was made with
Reported ==
    /\ ret.raised = NoRaise
    /\ \E i \in 1 .. Len(ret.value) : ret.value[i].pattern_id = CallSignature

\* C28: the analyze_prompt call that is the emergence_threshold-th made with
\* a pattern signature reports the signature as a novel discovery.
C28_ThresholdAnalysisReports ==
    (call.op = "analyze_prompt" /\ analysed[CallSignature] = emergence_threshold) => Reported

====
